---- MODULE Spec2Model ----
(***************************************************************************)
(* Model of the entropy-log pipeline of Gait-Complexity-Analysis.          *)
(*                                                                         *)
(* Text is modelled at character level: a string is a sequence of          *)
(* one-character strings, so the regular expressions of the source are     *)
(* modelled by what they match, character by character.  Positions are     *)
(* 1-based here (Python's are 0-based); only their order is ever used.     *)
(* An optional value (Python's None) is <<>>, a present value v is <<v>>.  *)
(***************************************************************************)
EXTENDS Integers, Sequences, FiniteSets, TLC

VARIABLES
    logfile,       \* os.path.basename(path) of the log being parsed
    text,          \* the content of the log file (f.read())
    pc,            \* position in parse_log_file: "search", "loop", "done"
    block,         \* m.group(1): the text of the section
    boff,          \* m.start(1): number of characters of text before block
    group_labels,  \* the (position, label) pairs found in block
    cur,           \* where re.finditer resumes its scan for 'File:' lines
    scanned,       \* history: one entry per 'File:' match the loop has visited
    rows,          \* the records collected so far (the returned list)
    cond,          \* parse_condition: its argument
    parsed,        \* parse_condition: what it returned (None before the call)
    logdir,        \* the working directory: file name -> text of the file
    files,         \* aggregate_logs: sorted(glob.glob(pattern))
    nextfile,      \* aggregate_logs: index in files of the next file to parse
    allrows,       \* aggregate_logs: the records of the files parsed so far
    df,            \* the table: its columns and its rows (None before it exists)
    mpc,           \* position in main of the entropy script
    stdout,        \* the messages printed
    figures,       \* the output directory: file name -> content
    readback,      \* the table an analysis script reads from the snapshot
    disk,          \* the classifier's root directory: path of a file -> bytes
    csvs,          \* classify_and_verify: the source files of the scan
    nextsrc,       \* the position of its loop in csvs
    copied,        \* its counter of files checked
    repaired,      \* its counter of files copied
    cpc,           \* position in main of the classifier
    nruns,         \* the runs of the classifier started so far
    copylog,       \* the calls of shutil.copy2 in this run: the source, and whether dst was there
    prevdisk,      \* the directory as the previous run left it
    touched,       \* the files altered since the previous run, with the bytes put there
    printed,       \* the lines the classifier printed in this run
    wdisk,         \* classify_by_condition: root_dir, path of a file -> bytes
    pending,       \* os.walk: the directories it has still to list, next first
    wcur,          \* cur: the directory os.walk yielded last
    wfiles,        \* the files of cur the inner loop has still to take
    count,         \* count
    wpc,           \* position in classify
    wlog,          \* the calls of shutil.copy2: src and dst
    wprinted,      \* the lines classify printed
    script,        \* the statistics script that runs
    statsmodels,   \* whether the import of statsmodels succeeds
    snapshot,      \* the rows of the snapshot file, as pd.read_csv returns them
    sdf,           \* df of the statistics script
    spc,           \* position in the statistics script
    sout,          \* the lines the statistics script printed
    exitcode,      \* the exit status of the statistics script
    defined,       \* the names the try block of the fit has bound
    outfiles       \* the files the statistics script wrote

\* The variables of parse_log_file.
vars == <<logfile, text, pc, block, boff, group_labels, cur, scanned, rows>>

\* The variables of parse_condition.
condvars == <<cond, parsed>>

\* The variables of main, aggregate_logs and plot_individual_distribution.
mainvars == <<logdir, files, nextfile, allrows, df, mpc, stdout, figures, readback>>

\* The variables of main of the classifier, and of the directory it works on.
classvars ==
    <<disk, csvs, nextsrc, copied, repaired, cpc, nruns, copylog, prevdisk, touched,
      printed>>

\* The variables of classify of classify_by_condition.
walkvars == <<wdisk, pending, wcur, wfiles, count, wpc, wlog, wprinted>>

\* The variables of a statistics script.
statvars ==
    <<script, statsmodels, snapshot, sdf, spc, sout, exitcode, defined, outfiles>>

\* What a run of parse_log_file alone leaves alone.
outside_parser == <<condvars, mainvars, classvars, walkvars, statvars>>

\* What a call of parse_condition alone leaves alone.
outside_cond == <<vars, mainvars, classvars, walkvars, statvars>>

\* What a run of main leaves alone: parse_log_file and parse_condition are
\* called as functions.
outside_main == <<vars, condvars, classvars, walkvars, statvars>>

\* What a run of the classifier leaves alone: it is a program of its own.
outside_class == <<vars, condvars, mainvars, walkvars, statvars>>

\* What a run of classify_by_condition leaves alone.
outside_walk == <<vars, condvars, mainvars, classvars, statvars>>

\* What a run of a statistics script leaves alone.
outside_stat == <<vars, condvars, mainvars, classvars, walkvars>>

----------------------------------------------------------------------------
(* Bounds of the model. *)

\* Number of lines of a log built from whole lines (markers, labels, records).
MaxPieces == 4

\* Number of lines after the start marker in a log built from record lines.
MaxLines == 3

\* Length of the file token in the logs that vary the file token.
MaxTok == 4

\* Length of the text after 'Symb:' in the logs that vary the number.
MaxLit == 4

\* Number of comma-separated fields in the logs that vary the fields.
MaxFields == 3

----------------------------------------------------------------------------
(* Optional values and helpers. *)

None == <<>>

Some(v) == <<v>>

\* F applied to the value of e, with e evaluated once.
Let(e, F(_)) ==
    CHOOSE r \in {F(v) : v \in {e}} : TRUE

Min(S) ==
    Let(S, LAMBDA T : CHOOSE x \in T : \A y \in T : x <= y)

Max(S) ==
    Let(S, LAMBDA T : CHOOSE x \in T : \A y \in T : x >= y)

----------------------------------------------------------------------------
(* Character classes of Python's re module, restricted to ASCII. *)

\* \s
Whitespace == {" ", "\t", "\n", "\r", "\f"}

Digits == {"0", "1", "2", "3", "4", "5", "6", "7", "8", "9"}

LowerCase ==
    <<"a", "b", "c", "d", "e", "f", "g", "h", "i", "j", "k", "l", "m", "n", "o", "p",
      "q", "r", "s", "t", "u", "v", "w", "x", "y", "z">>

UpperCase ==
    <<"A", "B", "C", "D", "E", "F", "G", "H", "I", "J", "K", "L", "M", "N", "O", "P",
      "Q", "R", "S", "T", "U", "V", "W", "X", "Y", "Z">>

\* \w
WordChars ==
    {"a", "b", "c", "d", "e", "f", "g", "h", "i", "j", "k", "l", "m", "n", "o", "p",
     "q", "r", "s", "t", "u", "v", "w", "x", "y", "z", "A", "B", "C", "D", "E", "F",
     "G", "H", "I", "J", "K", "L", "M", "N", "O", "P", "Q", "R", "S", "T", "U", "V",
     "W", "X", "Y", "Z", "0", "1", "2", "3", "4", "5", "6", "7", "8", "9", "_"}

\* str.upper() on one character
UpperChar(c) ==
    IF \E i \in 1..26 : LowerCase[i] = c
    THEN UpperCase[CHOOSE i \in 1..26 : LowerCase[i] = c]
    ELSE c

DigitVal(c) ==
    CASE c = "0" -> 0 [] c = "1" -> 1 [] c = "2" -> 2 [] c = "3" -> 3 [] c = "4" -> 4
      [] c = "5" -> 5 [] c = "6" -> 6 [] c = "7" -> 7 [] c = "8" -> 8 [] c = "9" -> 9

----------------------------------------------------------------------------
(* The literals of the regular expressions. *)

StartMarker ==
    <<"-", "-", "-", " ", "I", "n", "d", "i", "v", "i", "d", "u", "a", "l", " ", "E",
      "n", "t", "r", "o", "p", "y", " ", "R", "e", "s", "u", "l", "t", "s", " ", "-",
      "-", "-">>

EndGroupAvg ==
    <<"-", "-", "-", " ", "G", "r", "o", "u", "p", " ", "A", "v", "e", "r", "a", "g",
      "e", " ", "E", "n", "t", "r", "o", "p", "y", " ", "R", "e", "s", "u", "l", "t",
      "s", " ", "-", "-", "-">>

EndComplete ==
    <<"-", "-", "-", " ", "A", "n", "a", "l", "y", "s", "i", "s", " ", "C", "o", "m",
      "p", "l", "e", "t", "e", " ", "-", "-", "-">>

GroupLit ==
    <<"G", "r", "o", "u", "p", ":">>

FileLit ==
    <<"F", "i", "l", "e", ":">>

SymbLit ==
    <<"S", "y", "m", "b", ":">>

PermLit ==
    <<"P", "e", "r", "m", ":">>

----------------------------------------------------------------------------
(* Matching primitives. *)

\* The literal lit occurs in s at position i.
MatchAt(s, lit, i) ==
    /\ i >= 1
    /\ i + Len(lit) - 1 <= Len(s)
    /\ \A j \in 1..Len(lit) : s[i + j - 1] = lit[j]

\* Greedy \s*, \w+ or [0-9]* from i: the first position at or after i that
\* holds no character of class (Len(s) + 1 when only such characters are left).
RECURSIVE SkipClass(_, _, _)
SkipClass(s, i, class) ==
    IF i <= Len(s) /\ s[i] \in class
    THEN Let(i + 1, LAMBDA k : SkipClass(s, k, class))
    ELSE i

SkipSpaces(s, i) ==
    SkipClass(s, i, Whitespace)

\* Greedy .+ from i without re.S: the position of the next newline (or the end).
LineEnd(s, i) ==
    Min({k \in i..(Len(s) + 1) : k = Len(s) + 1 \/ s[k] = "\n"})

\* '$' without re.M: at the end of s, or before a newline that ends s.
DollarAt(s, p) ==
    \/ p = Len(s) + 1
    \/ p = Len(s) /\ s[p] = "\n"

\* str.strip()
Strip(s) ==
    Let({i \in 1..Len(s) : s[i] \notin Whitespace},
        LAMBDA keep : IF keep = {} THEN <<>> ELSE SubSeq(s, Min(keep), Max(keep)))

\* str.split(sep) for a one-character separator: always at least one part.
RECURSIVE SplitOn(_, _)
SplitOn(s, sep) ==
    Let({i \in 1..Len(s) : s[i] = sep},
        LAMBDA at :
            IF at = {}
            THEN <<s>>
            ELSE Let(Min(at),
                     LAMBDA k : <<SubSeq(s, 1, k - 1)>>
                                  \o Let(SubSeq(s, k + 1, Len(s)),
                                         LAMBDA rest : SplitOn(rest, sep))))

\* sep.join(parts)
RECURSIVE JoinWith(_, _)
JoinWith(parts, sep) ==
    IF parts = <<>> THEN <<>>
    ELSE IF Len(parts) = 1 THEN parts[1]
    ELSE parts[1] \o <<sep>> \o Let(Tail(parts), LAMBDA rest : JoinWith(rest, sep))

\* re.sub(r'\s+', ' ', s): every run of whitespace becomes one space.
CollapseSpaces(s) ==
    Let(SelectSeq([i \in 1..Len(s) |-> i],
                  LAMBDA i : ~(s[i] \in Whitespace /\ i > 1 /\ s[i - 1] \in Whitespace)),
        LAMBDA keep :
            [k \in 1..Len(keep) |-> IF s[keep[k]] \in Whitespace THEN " " ELSE s[keep[k]]])

----------------------------------------------------------------------------
(* The section: re.search(start (.*?) (endA | endB | $), text, re.S). *)

\* Mutant: the group is greedy, (.*) for (.*?), and runs to the end of the text.
SectionMatchGreedy(t) ==
    Let({i \in 1..Len(t) : MatchAt(t, StartMarker, i)},
        LAMBDA starts :
            IF starts = {}
            THEN [found |-> FALSE, from |-> 0, to |-> 0]
            ELSE [found |-> TRUE, from |-> Min(starts) + Len(StartMarker),
                  to |-> Len(t) + 1])

\* Mutant: the start marker is optional, so a text without it is parsed from
\* its beginning.
SectionMatchOptionalStart(t) ==
    Let({i \in 1..Len(t) : MatchAt(t, StartMarker, i)},
        LAMBDA starts :
            Let(IF starts = {} THEN 1 ELSE Min(starts) + Len(StartMarker),
                LAMBDA b :
                    [found |-> TRUE, from |-> b,
                     to |-> Min({p \in b..(Len(t) + 1) :
                                   \/ MatchAt(t, EndGroupAvg, p)
                                   \/ MatchAt(t, EndComplete, p)
                                   \/ DollarAt(t, p)})]))

\* The leftmost start marker wins; the lazy group then stops at the first
\* position where an end marker or '$' matches.
SectionMatch(t) ==
    Let({i \in 1..Len(t) : MatchAt(t, StartMarker, i)},
        LAMBDA starts :
            IF starts = {}
            THEN [found |-> FALSE, from |-> 0, to |-> 0]
            ELSE Let(Min(starts) + Len(StartMarker),
                     LAMBDA b :
                         [found |-> TRUE, from |-> b,
                          to |-> Min({p \in b..(Len(t) + 1) :
                                        \/ MatchAt(t, EndGroupAvg, p)
                                        \/ MatchAt(t, EndComplete, p)
                                        \/ DollarAt(t, p)})]))

----------------------------------------------------------------------------
(* Group labels: re.finditer(r'Group:\s*(\w+)', block). *)

\* Start of the word of the match of Group:\s*(\w+) that starts at i, 0 if none.
LabelWordAt(b, i) ==
    IF ~MatchAt(b, GroupLit, i) THEN 0
    ELSE Let(SkipSpaces(b, i + Len(GroupLit)),
             LAMBDA w : IF w <= Len(b) /\ b[w] \in WordChars THEN w ELSE 0)

\* Mutant: re.search for re.finditer, only the first label is collected.
FindGroupLabelsFirstOnly(b, from) ==
    Let({i \in from..Len(b) : LabelWordAt(b, i) # 0},
        LAMBDA hits :
            IF hits = {}
            THEN <<>>
            ELSE Let(Min(hits),
                     LAMBDA i :
                         Let(LabelWordAt(b, i),
                             LAMBDA w :
                                 <<[pos |-> i,
                                    lbl |-> SubSeq(b, w, SkipClass(b, w, WordChars) - 1)]>>)))

\* The matches from position from on, left to right, each as (gm.start(), label).
RECURSIVE FindGroupLabels(_, _)
FindGroupLabels(b, from) ==
    Let({i \in from..Len(b) : LabelWordAt(b, i) # 0},
        LAMBDA hits :
            IF hits = {}
            THEN <<>>
            ELSE Let(Min(hits),
                     LAMBDA i :
                         Let(LabelWordAt(b, i),
                             LAMBDA w :
                                 Let(SkipClass(b, w, WordChars),
                                     LAMBDA e :
                                         <<[pos |-> i, lbl |-> Strip(SubSeq(b, w, e - 1))]>>
                                           \o FindGroupLabels(b, e)))))

----------------------------------------------------------------------------
(* File lines: re.finditer(r'^\s*File:\s*(.+)$', block, re.M). *)

NoFileMatch == [p |-> 0, g1 |-> 0, end |-> 0]

\* The match that starts at p (NoFileMatch if none): the start of the match,
\* the start of group 1 and the end of the match (exclusive).
FileMatchAt(b, p) ==
    IF ~(p = 1 \/ (p >= 2 /\ p <= Len(b) /\ b[p - 1] = "\n")) THEN NoFileMatch
    ELSE Let(SkipSpaces(b, p),
             LAMBDA q :
                 IF ~MatchAt(b, FileLit, q) THEN NoFileMatch
                 ELSE Let(SkipSpaces(b, q + Len(FileLit)),
                          LAMBDA rmax :
                              IF rmax <= Len(b)
                              THEN [p |-> p, g1 |-> rmax, end |-> LineEnd(b, rmax)]
                              \* \s* gives characters back until (.+) can start
                              ELSE Let({r \in (q + Len(FileLit))..Len(b) : b[r] # "\n"},
                                       LAMBDA back :
                                           IF back = {} THEN NoFileMatch
                                           ELSE [p |-> p, g1 |-> Max(back),
                                                 end |-> LineEnd(b, Max(back))])))

\* The first match that starts at one of the positions starts.
RECURSIVE FirstFileMatch(_, _)
FirstFileMatch(b, starts) ==
    IF starts = {} THEN NoFileMatch
    ELSE Let(FileMatchAt(b, Min(starts)),
             LAMBDA fm : IF fm.p # 0 THEN fm
                         ELSE Let({q \in starts : q > Min(starts)},
                                  LAMBDA later : FirstFileMatch(b, later)))

\* The next match at or after from (NoFileMatch when there is none): '^' lets
\* a match start at the start of block or after a newline.
NextFileMatch(b, from) ==
    Let({p \in from..Len(b) : p = 1 \/ b[p - 1] = "\n"},
        LAMBDA starts : FirstFileMatch(b, starts))

----------------------------------------------------------------------------
(* Numbers: num_re = [-+]?[0-9]*\.?[0-9]+(?:[eE][-+]?[0-9]+)? *)

\* Position after an optional sign at j.
AfterSign(s, j) ==
    IF j <= Len(s) /\ s[j] \in {"-", "+"} THEN j + 1 ELSE j

\* Position after an optional point at j.
AfterPoint(s, j) ==
    IF j <= Len(s) /\ s[j] = "." THEN j + 1 ELSE j

\* End (exclusive) of the match of [eE][-+]?[0-9]+ at j, 0 if none.
ExponentEnd(s, j) ==
    IF j <= Len(s) /\ s[j] \in {"e", "E"}
    THEN Let(AfterSign(s, j + 1),
             LAMBDA d : Let(SkipClass(s, d, Digits), LAMBDA e : IF e > d THEN e ELSE 0))
    ELSE 0

\* End (exclusive) of [-+]?[0-9]*\.?[0-9]+ at j, 0 if none.  The regex engine
\* takes the integer digits, then the point, then the fraction digits, and
\* gives the point and the last digit back when no fraction digit follows.
MantissaEnd(s, j) ==
    Let(AfterSign(s, j),
        LAMBDA d :
            Let(SkipClass(s, d, Digits),
                LAMBDA i1 :
                    Let(SkipClass(s, AfterPoint(s, i1), Digits),
                        LAMBDA f1 :
                            IF AfterPoint(s, i1) > i1 /\ f1 > AfterPoint(s, i1) THEN f1
                            ELSE IF i1 > d THEN i1
                            ELSE 0)))

\* End (exclusive) of the match of num_re at j, 0 if none.
NumMatchEnd(s, j) ==
    Let(MantissaEnd(s, j),
        LAMBDA m :
            IF m = 0 THEN 0
            ELSE Let(ExponentEnd(s, m), LAMBDA x : IF x # 0 THEN x ELSE m))

\* Mutant: the rightmost match for the leftmost.
SearchNumLast(s, key) ==
    Let({i \in 1..Len(s) :
            MatchAt(s, key, i) /\ NumMatchEnd(s, SkipSpaces(s, i + Len(key))) # 0},
        LAMBDA hits :
            IF hits = {}
            THEN None
            ELSE Let(SkipSpaces(s, Max(hits) + Len(key)),
                     LAMBDA j : Some(SubSeq(s, j, NumMatchEnd(s, j) - 1))))

\* re.search(key + r'\s*' + num_re, s): group 1 of the leftmost match, or None.
SearchNum(s, key) ==
    Let({i \in 1..Len(s) :
            MatchAt(s, key, i) /\ NumMatchEnd(s, SkipSpaces(s, i + Len(key))) # 0},
        LAMBDA hits :
            IF hits = {}
            THEN None
            ELSE Let(SkipSpaces(s, Min(hits) + Len(key)),
                     LAMBDA j : Some(SubSeq(s, j, NumMatchEnd(s, j) - 1))))

RECURSIVE DigitsToNat(_)
DigitsToNat(ds) ==
    IF ds = <<>> THEN 0
    ELSE 10 * Let(SubSeq(ds, 1, Len(ds) - 1), LAMBDA front : DigitsToNat(front))
           + DigitVal(ds[Len(ds)])

RECURSIVE Normalise(_, _)
Normalise(m, e) ==
    IF m = 0 THEN <<0, 0>>
    ELSE IF m % 10 = 0 THEN Let(m \div 10, LAMBDA q : Normalise(q, e + 1))
    ELSE <<m, e>>

\* float(lit) for a literal num_re matched: the number m * 10^e as the pair
\* <<m, e>> with m not divisible by 10 (<<0, 0>> for zero), so that two
\* literals convert to the same value exactly when they denote the same number.
ToFloat(lit) ==
    Let([d |-> AfterSign(lit, 1), i1 |-> SkipClass(lit, AfterSign(lit, 1), Digits)],
        LAMBDA a :
            Let([f0 |-> AfterPoint(lit, a.i1),
                 f1 |-> SkipClass(lit, AfterPoint(lit, a.i1), Digits)],
                LAMBDA f :
                    Let([mant |-> DigitsToNat(SubSeq(lit, a.d, a.i1 - 1)
                                                \o SubSeq(lit, f.f0, f.f1 - 1)),
                         xabs |-> IF f.f1 <= Len(lit)
                                  THEN DigitsToNat(SubSeq(lit, AfterSign(lit, f.f1 + 1),
                                                          Len(lit)))
                                  ELSE 0,
                         xneg |-> f.f1 + 1 <= Len(lit) /\ lit[f.f1 + 1] = "-"],
                        LAMBDA v :
                            Normalise(IF lit[1] = "-" THEN 0 - v.mant ELSE v.mant,
                                      (IF v.xneg THEN 0 - v.xabs ELSE v.xabs)
                                        - (f.f1 - f.f0)))))

----------------------------------------------------------------------------
(* One 'File:' line. *)

\* parts = [p.strip() for p in line.split(',')]
Fields(line) ==
    Let(SplitOn(line, ","),
        LAMBDA raw : [i \in 1..Len(raw) |-> Let(raw[i], LAMBDA p : Strip(p))])

\* Mutant: the threshold is 2.
TooFewFieldsTwo(parts) ==
    Len(parts) < 2

\* len(parts) < 3
TooFewFields(parts) ==
    Len(parts) < 3

\* Mutant: prev_labels[0] for prev_labels[-1], the first label of the section.
AssignGroupFirst(labels, pos) ==
    Let(SelectSeq(labels, LAMBDA l : l.pos <= pos),
        LAMBDA prev_labels :
            IF prev_labels # <<>> THEN Some(prev_labels[1].lbl) ELSE None)

\* The group of the nearest preceding label: the last label with p <= pos.
AssignGroup(labels, pos) ==
    Let(SelectSeq(labels, LAMBDA l : l.pos <= pos),
        LAMBDA prev_labels :
            IF prev_labels # <<>> THEN Some(prev_labels[Len(prev_labels)].lbl) ELSE None)

\* Mutant: 'or' for 'and'.
EitherFound(symb_m, perm_m) ==
    symb_m # None \/ perm_m # None

\* symb_m and perm_m
BothFound(symb_m, perm_m) ==
    symb_m # None /\ perm_m # None

\* float(m.group(1)) of a match object
MatchFloat(m) ==
    IF m = None THEN None ELSE Some(ToFloat(m[1]))

\* parts_fname[0].upper().startswith('S')
StartsWithS(s) ==
    Len(s) >= 1 /\ UpperChar(s[1]) = "S"

\* Mutant: the 'S' branch drops the prefix letter from the subject.
SplitIfSDropPrefix(parts_fname) ==
    [subject |-> Some(SubSeq(parts_fname[1], 2, Len(parts_fname[1]))),
     condition |-> Some(JoinWith(Tail(parts_fname), "_"))]

\* The branch taken when the first part starts with 'S'.
SplitIfS(parts_fname) ==
    [subject |-> Some(parts_fname[1]), condition |-> Some(JoinWith(Tail(parts_fname), "_"))]

\* Mutant: parts_fname[1] for '_'.join(parts_fname[1:]).
SplitElseSecondPart(parts_fname) ==
    [subject |-> Some(parts_fname[1]), condition |-> Some(parts_fname[2])]

\* The fallback branch.
SplitElse(parts_fname) ==
    [subject |-> Some(parts_fname[1]), condition |-> Some(JoinWith(Tail(parts_fname), "_"))]

\* Mutant: a name without underscore is taken as the subject.
SubjectWholeName(fname) ==
    IF \E i \in 1..Len(fname) : fname[i] = "_"
    THEN Let(SplitOn(fname, "_"), LAMBDA parts_fname : SplitElse(parts_fname))
    ELSE [subject |-> Some(fname), condition |-> None]

\* subj, cond from fname
SubjectCondition(fname) ==
    IF \E i \in 1..Len(fname) : fname[i] = "_"
    THEN Let(SplitOn(fname, "_"),
             LAMBDA parts_fname :
                 IF StartsWithS(parts_fname[1])
                 THEN SplitIfS(parts_fname)
                 ELSE SplitElse(parts_fname))
    ELSE [subject |-> None, condition |-> None]

\* The dictionary appended to rows.
MakeRow(name, group, fname, symb_m, perm_m) ==
    Let(SubjectCondition(fname),
        LAMBDA sc :
            [logfile |-> name, group |-> group, file |-> fname,
             subject |-> sc.subject, condition |-> sc.condition,
             symb |-> MatchFloat(symb_m), perm |-> MatchFloat(perm_m)])

----------------------------------------------------------------------------
(* The log texts the model is run on. *)

RECURSIVE Concat(_)
Concat(ss) ==
    IF ss = <<>> THEN <<>> ELSE ss[1] \o Concat(Tail(ss))

SeqsUpTo(S, n) ==
    UNION {[1..k -> S] : k \in 0..n}

NL == <<"\n">>

GroupOldLine ==
    <<"G", "r", "o", "u", "p", ":", " ", "o", "l", "d", "\n">>

GroupYoungLine ==
    <<"G", "r", "o", "u", "p", ":", " ", "y", "o", "u", "n", "g", "\n">>

GoodLine ==
    <<"F", "i", "l", "e", ":", " ", "S", "1", "_", "a", ",", " ", "S", "y", "m", "b",
      ":", " ", "1", ",", " ", "P", "e", "r", "m", ":", " ", "2", "\n">>

\* A line cut off after 'File:'.
TruncatedLine ==
    <<"F", "i", "l", "e", ":", "\n">>

\* Two fields, both numbers present.
TwoFieldLine ==
    <<"F", "i", "l", "e", ":", " ", "S", "2", "_", "b", " ", "S", "y", "m", "b", ":",
      " ", "1", ",", " ", "P", "e", "r", "m", ":", " ", "2", "\n">>

\* Three fields, no number after 'Perm:'.
NoPermLine ==
    <<"F", "i", "l", "e", ":", " ", "S", "3", "_", "c", ",", " ", "S", "y", "m", "b",
      ":", " ", "1", ",", " ", "P", "e", "r", "m", ":", " ", "n", "/", "a", "\n">>

\* An indented record with signed and exponent forms.
IndentedLine ==
    <<" ", " ", "F", "i", "l", "e", ":", " ", "x", ",", " ", "S", "y", "m", "b", ":",
      " ", "-", "2", "e", "1", ",", " ", "P", "e", "r", "m", ":", " ", "+", ".", "5", "\n">>

\* Two fields and a label on the same line.
LabelInLine ==
    <<"F", "i", "l", "e", ":", " ", "S", "4", "_", "d", ",", " ", "S", "y", "m", "b",
      ":", " ", "3", " ", "G", "r", "o", "u", "p", ":", " ", "y", "o", "u", "n", "g", "\n">>

BlankLine ==
    <<" ", " ", "\n">>

\* Whole lines: markers, labels, one record.
Pieces ==
    {StartMarker \o NL, EndGroupAvg \o NL, EndComplete \o NL,
     GroupOldLine, GroupYoungLine, GoodLine}

StructureLogs ==
    {Concat(ps) : ps \in SeqsUpTo(Pieces, MaxPieces)}

\* Lines of a section: well-formed, malformed, truncated, blank.
LinePieces ==
    {GoodLine, TruncatedLine, TwoFieldLine, NoPermLine, IndentedLine, LabelInLine,
     GroupOldLine, BlankLine}

LineLogs ==
    {StartMarker \o NL \o Concat(ls) : ls \in SeqsUpTo(LinePieces, MaxLines)}

TokChars == {"S", "s", "a", "_"}

\* One record whose file token varies.
TokenLogs ==
    {StartMarker \o <<"\n", "F", "i", "l", "e", ":", " ">> \o tok \o
     <<",", " ", "S", "y", "m", "b", ":", " ", "1", ",", " ", "P", "e", "r", "m", ":",
       " ", "2">> : tok \in SeqsUpTo(TokChars, MaxTok)}

LitChars == {"-", "1", "0", ".", "e", " "}

\* One record whose text after 'Symb:' varies.
NumberLogs ==
    {StartMarker \o <<"\n", "F", "i", "l", "e", ":", " ", "a", "_", "b", ",", " ", "S",
                      "y", "m", "b", ":">> \o lit \o
     <<",", " ", "P", "e", "r", "m", ":", " ", "2">> : lit \in SeqsUpTo(LitChars, MaxLit)}

FieldChoices ==
    {<<"S", "1", "_", "a">>, <<" ", "S", "y", "m", "b", ":", " ", "1", ".", "5">>, <<" ",
                                                                                     "P",
                                                                                     "e",
                                                                                     "r",
                                                                                     "m",
                                                                                     ":",
                                                                                     " ",
                                                                                     "2">>, <<
                                                                                                                                                                                                                                                                                                                                                                                                                                                                                                                                                                                                                                                                                                                                                    " ",
                                                                                                                                                                                                                                                                                                                                                                                                                                                                                                                                                                                                                                                                                                                                                    "S",
                                                                                                                                                                                                                                                                                                                                                                                                                                                                                                                                                                                                                                                                                                                                                    "y",
                                                                                                                                                                                                                                                                                                                                                                                                                                                                                                                                                                                                                                                                                                                                                    "m",
                                                                                                                                                                                                                                                                                                                                                                                                                                                                                                                                                                                                                                                                                                                                                    "b",
                                                                                                                                                                                                                                                                                                                                                                                                                                                                                                                                                                                                                                                                                                                                                    ":",
                                                                                                                                                                                                                                                                                                                                                                                                                                                                                                                                                                                                                                                                                                                                                    " ",
                                                                                                                                                                                                                                                                                                                                                                                                                                                                                                                                                                                                                                                                                                                                                    "n",
                                                                                                                                                                                                                                                                                                                                                                                                                                                                                                                                                                                                                                                                                                                                                    "/",
                                                                                                                                                                                                                                                                                                                                                                                                                                                                                                                                                                                                                                                                                                                                                    "a">>,
     <<" ", "S", "y", "m", "b", ":", " ", "3", " ", "P", "e", "r", "m", ":", " ", "2">>, <<>>}

\* One record line whose comma-separated fields vary.
FieldLogs ==
    {StartMarker \o <<"\n", "F", "i", "l", "e", ":", " ">> \o JoinWith(fs, ",") :
        fs \in UNION {[1..k -> FieldChoices] : k \in 1..MaxFields}}

\* The line of the worked example, in a section.
ExampleLog ==
    StartMarker \o <<"\n", "F", "i", "l", "e", ":", " ", "t", "r", "i", "a", "l", "A",
                     ".", "c", "s", "v", ",", " ", "S", "y", "m", "b", ":", " ", "0",
                     ".", "7", "3", "2", ",", " ", "P", "e", "r", "m", ":", " ", "1",
                     ".", "2", "0", "4", "\n">>

Logs ==
    StructureLogs \cup LineLogs \cup TokenLogs \cup NumberLogs \cup FieldLogs \cup {ExampleLog}

LogNames == {"analysis_output.1.log"}

----------------------------------------------------------------------------
(* Each function is run on its own: the variables of the others are idle. *)

CondIdle ==
    /\ cond = None
    /\ parsed = None

MainIdle ==
    /\ logdir = <<>>
    /\ files = <<>>
    /\ nextfile = 1
    /\ allrows = <<>>
    /\ df = None
    /\ mpc = "idle"
    /\ stdout = <<>>
    /\ figures = <<>>
    /\ readback = None

ClassIdle ==
    /\ disk = <<>>
    /\ csvs = <<>>
    /\ nextsrc = 1
    /\ copied = 0
    /\ repaired = 0
    /\ cpc = "idle"
    /\ nruns = 0
    /\ copylog = <<>>
    /\ prevdisk = <<>>
    /\ touched = {}
    /\ printed = <<>>

WalkIdle ==
    /\ wdisk = <<>>
    /\ pending = <<>>
    /\ wcur = <<>>
    /\ wfiles = <<>>
    /\ count = 0
    /\ wpc = "idle"
    /\ wlog = <<>>
    /\ wprinted = <<>>

StatIdle ==
    /\ script = ""
    /\ statsmodels = FALSE
    /\ snapshot = <<>>
    /\ sdf = <<>>
    /\ spc = "idle"
    /\ sout = <<>>
    /\ exitcode = <<>>
    /\ defined = {}
    /\ outfiles = <<>>

ParserIdle ==
    /\ logfile = ""
    /\ text = <<>>
    /\ pc = "idle"
    /\ block = <<>>
    /\ boff = 0
    /\ group_labels = <<>>
    /\ cur = 1
    /\ scanned = <<>>
    /\ rows = <<>>

----------------------------------------------------------------------------
(* parse_log_file as a state machine. *)

Init ==
    /\ logfile \in LogNames
    /\ text \in Logs
    /\ pc = "search"
    /\ block = <<>>
    /\ boff = 0
    /\ group_labels = <<>>
    /\ cur = 1
    /\ scanned = <<>>
    /\ rows = <<>>
    /\ CondIdle
    /\ MainIdle
    /\ ClassIdle
    /\ WalkIdle
    /\ StatIdle

\* if not m: return []
ReturnNoSection ==
    /\ pc = "search"
    /\ ~SectionMatch(text).found
    /\ pc' = "done"
    /\ rows' = <<>>
    /\ UNCHANGED <<logfile, text, block, boff, group_labels, cur, scanned>>
    /\ UNCHANGED outside_parser

\* block = m.group(1); the labels of the block are collected.
EnterSection ==
    /\ pc = "search"
    /\ \E m \in {SectionMatch(text)} :
        /\ m.found
        /\ \E b \in {SubSeq(text, m.from, m.to - 1)} :
            /\ block' = b
            /\ boff' = m.from - 1
            /\ group_labels' = FindGroupLabels(b, 1)
    /\ cur' = 1
    /\ pc' = "loop"
    /\ UNCHANGED <<logfile, text, scanned, rows>>
    /\ UNCHANGED outside_parser

\* What the loop body computes from the match fm in block b.
LineOf(b, fm) ==
    Let(Strip(SubSeq(b, fm.g1, fm.end - 1)),
        LAMBDA line :
            Let(CollapseSpaces(line),
                LAMBDA clean_line :
                    [p |-> fm.p, end |-> fm.end, line |-> line,
                     parts |-> Fields(line),
                     symb_m |-> SearchNum(clean_line, SymbLit),
                     perm_m |-> SearchNum(clean_line, PermLit)]))

\* The history entry of a visited match: where it lies in block, its line,
\* what the two searches matched, and the index in rows of its record (0 if
\* it was skipped).
Visit(c, kept) ==
    Append(scanned, [pos |-> c.p, end |-> c.end, line |-> c.line,
                     symb_m |-> c.symb_m, perm_m |-> c.perm_m, row |-> kept])

\* The iterator is exhausted: return rows.
ReturnRows ==
    /\ pc = "loop"
    /\ NextFileMatch(block, cur).p = 0
    /\ pc' = "done"
    /\ UNCHANGED <<logfile, text, block, boff, group_labels, cur, scanned, rows>>
    /\ UNCHANGED outside_parser

\* if len(parts) < 3: continue
SkipFewFields ==
    /\ pc = "loop"
    /\ \E fm \in {NextFileMatch(block, cur)} :
        /\ fm.p # 0
        /\ \E c \in {LineOf(block, fm)} :
            /\ TooFewFields(c.parts)
            /\ cur' = c.end
            /\ scanned' = Visit(c, 0)
    /\ UNCHANGED <<logfile, text, pc, block, boff, group_labels, rows>>
    /\ UNCHANGED outside_parser

\* Enough fields, but 'Symb:' or 'Perm:' has no number: nothing is appended.
SkipNoNumber ==
    /\ pc = "loop"
    /\ \E fm \in {NextFileMatch(block, cur)} :
        /\ fm.p # 0
        /\ \E c \in {LineOf(block, fm)} :
            /\ ~TooFewFields(c.parts)
            /\ ~BothFound(c.symb_m, c.perm_m)
            /\ cur' = c.end
            /\ scanned' = Visit(c, 0)
    /\ UNCHANGED <<logfile, text, pc, block, boff, group_labels, rows>>
    /\ UNCHANGED outside_parser

\* rows.append({...})
AppendRow ==
    /\ pc = "loop"
    /\ \E fm \in {NextFileMatch(block, cur)} :
        /\ fm.p # 0
        /\ \E c \in {LineOf(block, fm)} :
            /\ ~TooFewFields(c.parts)
            /\ BothFound(c.symb_m, c.perm_m)
            /\ cur' = c.end
            /\ rows' = Append(rows, MakeRow(logfile, AssignGroup(group_labels, c.p),
                                            c.parts[1], c.symb_m, c.perm_m))
            /\ scanned' = Visit(c, Len(rows) + 1)
    /\ UNCHANGED <<logfile, text, pc, block, boff, group_labels>>
    /\ UNCHANGED outside_parser

Next ==
    \/ ReturnNoSection
    \/ EnterSection
    \/ ReturnRows
    \/ SkipFewFields
    \/ SkipNoNumber
    \/ AppendRow

Spec == Init /\ [][Next]_vars

----------------------------------------------------------------------------
(* parse_log_file as a function of the text: what the run above returns. *)

RECURSIVE RowsFrom(_, _, _, _)
RowsFrom(name, b, labels, from) ==
    Let(NextFileMatch(b, from),
        LAMBDA fm :
            IF fm.p = 0 THEN <<>>
            ELSE Let(LineOf(b, fm),
                     LAMBDA c :
                         (IF ~TooFewFields(c.parts) /\ BothFound(c.symb_m, c.perm_m)
                          THEN <<MakeRow(name, AssignGroup(labels, c.p), c.parts[1],
                                         c.symb_m, c.perm_m)>>
                          ELSE <<>>)
                           \o RowsFrom(name, b, labels, c.end)))

ParseLog(name, t) ==
    Let(SectionMatch(t),
        LAMBDA m :
            IF ~m.found THEN <<>>
            ELSE Let(SubSeq(t, m.from, m.to - 1),
                     LAMBDA b : RowsFrom(name, b, FindGroupLabels(b, 1), 1)))

----------------------------------------------------------------------------
(* Vocabulary of the properties. *)

\* The positions of s where lit occurs.
Occurrences(s, lit) ==
    {i \in 1..Len(s) : MatchAt(s, lit, i)}

\* The positions of s where a 'Group:' label (the literal, optional
\* whitespace, a word) starts, and the word of the label at such a position.
LabelPositions(s) ==
    {i \in Occurrences(s, GroupLit) :
        LET w == SkipSpaces(s, i + Len(GroupLit))
        IN  w <= Len(s) /\ s[w] \in WordChars}

LabelToken(s, i) ==
    LET w == SkipSpaces(s, i + Len(GroupLit))
        after == {j \in w..(Len(s) + 1) : j = Len(s) + 1 \/ s[j] \notin WordChars}
    IN  SubSeq(s, w, Min(after) - 1)

\* The history entries whose line produced a record.
Kept ==
    {k \in 1..Len(scanned) : scanned[k].row # 0}

\* Every record has its history entry, in order.
RowsMatchHistory ==
    /\ \A k \in Kept : scanned[k].row \in 1..Len(rows)
    /\ \A k1, k2 \in Kept : k1 < k2 => scanned[k1].row < scanned[k2].row
    /\ Len(rows) = Cardinality(Kept)

\* The run returns what the function computes.
ReturnsParseLog ==
    pc = "done" => rows = ParseLog(logfile, text)

\* Where the section starts in text (after the first start marker) and the
\* positions of the end markers from there on.
SpanStart ==
    Min(Occurrences(text, StartMarker)) + Len(StartMarker)

EndMarkersAfter(from) ==
    {e \in Occurrences(text, EndGroupAvg) \cup Occurrences(text, EndComplete) : e >= from}

\* C1: every record comes from a 'File:' line that lies after the first start
\* marker and wholly before the first end marker that follows it (or the end
\* of the text); a 'File:' line elsewhere yields no record.
C1_RecordsOnlyFromSpan ==
    /\ RowsMatchHistory
    /\ \A k \in Kept :
        LET from == boff + scanned[k].pos
            to == boff + scanned[k].end
        IN  /\ Occurrences(text, StartMarker) # {}
            /\ MatchAt(text, FileLit, SkipSpaces(text, from))
            /\ from >= SpanStart
            /\ to <= Len(text) + 1
            /\ \A e \in EndMarkersAfter(SpanStart) : to <= e

\* A record was produced although the text also has a 'File:' line before the
\* start marker or after the end marker.
C1_Witness ==
    /\ pc = "done"
    /\ rows # <<>>
    /\ EndMarkersAfter(SpanStart) # {}
    /\ \E f \in Occurrences(text, FileLit) :
        \A e \in EndMarkersAfter(SpanStart) : f > e

\* C2: a record carries the label of the last 'Group:' marker of the section
\* at or before its 'File:' line, and a null group when there is none.
C2_NearestPrecedingLabel ==
    \A k \in Kept :
        LET before == {g \in LabelPositions(block) : g <= scanned[k].pos}
        IN  rows[scanned[k].row].group =
                IF before = {} THEN None ELSE Some(LabelToken(block, Max(before)))

\* A record with two different labels before it in the section.
C2_Witness ==
    \E k \in Kept :
        \E g1, g2 \in LabelPositions(block) :
            /\ g1 < g2
            /\ g2 <= scanned[k].pos
            /\ LabelToken(block, g1) # LabelToken(block, g2)

\* C3 as stated: positions over the whole text.  A label anywhere before the
\* record's line, with no other label between, is the record's group.
C3_AnyPrecedingLabel ==
    \A k \in Kept :
        \A g \in LabelPositions(text) :
            (/\ g < boff + scanned[k].pos
             /\ ~\E h \in LabelPositions(text) : g < h /\ h < boff + scanned[k].pos)
            => rows[scanned[k].row].group = Some(LabelToken(text, g))

\* C3 amended: the same for a label that lies in the section, after the start
\* marker.
C3_PrecedingLabelInSpan ==
    \A k \in Kept :
        \A g \in LabelPositions(text) :
            (/\ g >= SpanStart
             /\ g < boff + scanned[k].pos
             /\ ~\E h \in LabelPositions(text) : g < h /\ h < boff + scanned[k].pos)
            => rows[scanned[k].row].group = Some(LabelToken(text, g))

\* A record whose nearest label lies in the section, with an earlier label
\* in the section too.
C3_Witness ==
    \E k \in Kept :
        \E g, g0 \in LabelPositions(text) :
            /\ g0 >= SpanStart
            /\ g0 < g
            /\ g < boff + scanned[k].pos
            /\ ~\E h \in LabelPositions(text) : g < h /\ h < boff + scanned[k].pos

\* C4: a text without the start marker gives the empty list in one step, with
\* no 'File:' line visited, whatever else the text holds.
C4_NoStartMarkerNoRecords ==
    Occurrences(text, StartMarker) = {}
    => \/ pc = "search"
       \/ pc = "done" /\ rows = <<>> /\ scanned = <<>>

\* The parser returned for a text that has labels, 'File:' lines and an end
\* marker but no start marker.
C4_Witness ==
    /\ pc = "done"
    /\ Occurrences(text, StartMarker) = {}
    /\ LabelPositions(text) # {}
    /\ Occurrences(text, FileLit) # {}
    /\ Occurrences(text, EndComplete) # {}

\* The number of comma-separated fields of a line.
FieldCount(line) ==
    Cardinality(Occurrences(line, <<",">>)) + 1

\* C5: a line of fewer than 3 comma-separated fields yields no record; a line
\* of 3 or more is not rejected for its fields (it yields a record when both
\* numbers are found).
C5_FewerThanThreeFieldsSkipped ==
    \A k \in 1..Len(scanned) :
        /\ FieldCount(scanned[k].line) < 3 => scanned[k].row = 0
        /\ (/\ FieldCount(scanned[k].line) >= 3
            /\ scanned[k].symb_m # None
            /\ scanned[k].perm_m # None) => scanned[k].row # 0

\* A line of two fields with both numbers was visited and skipped.
C5_Witness ==
    \E k \in 1..Len(scanned) :
        /\ FieldCount(scanned[k].line) = 2
        /\ scanned[k].symb_m # None
        /\ scanned[k].perm_m # None
        /\ scanned[k].row = 0

----------------------------------------------------------------------------
(* Numeric literals, as a language. *)

Unsigned(w) ==
    IF Len(w) >= 1 /\ w[1] \in {"-", "+"} THEN Tail(w) ELSE w

\* Digits with at most one point, ending in a digit, after an optional sign.
IsMantissa(w) ==
    LET u == Unsigned(w)
    IN  /\ Len(u) >= 1
        /\ \A i \in 1..Len(u) : u[i] \in Digits \cup {"."}
        /\ Cardinality(Occurrences(u, <<".">>)) <= 1
        /\ u[Len(u)] \in Digits

\* e or E, an optional sign, one digit or more.
IsExponent(w) ==
    /\ Len(w) >= 2
    /\ w[1] \in {"e", "E"}
    /\ LET u == Unsigned(Tail(w))
       IN  Len(u) >= 1 /\ \A i \in 1..Len(u) : u[i] \in Digits

IsNumLit(w) ==
    \E m \in 1..Len(w) :
        /\ IsMantissa(SubSeq(w, 1, m))
        /\ m = Len(w) \/ IsExponent(SubSeq(w, m + 1, Len(w)))

\* The characters a numeric literal is written with.
NumChars ==
    Digits \cup {".", "e", "E", "+", "-"}

\* The longest numeric literal of s that starts at j, if there is one: it lies
\* within the run of NumChars that starts at j.
NumberAt(s, j) ==
    LET stop == SkipClass(s, j, NumChars)
        ns == {n \in 1..(stop - j) : IsNumLit(SubSeq(s, j, j + n - 1))}
    IN  IF ns = {} THEN None ELSE Some(SubSeq(s, j, j + Max(ns) - 1))

\* The numeric literal that follows the occurrence of key at i, after
\* optional whitespace.
NumberAfter(s, key, i) ==
    NumberAt(s, SkipSpaces(s, i + Len(key)))

\* The occurrences of key that a numeric literal follows.
WithNumber(s, key) ==
    {i \in Occurrences(s, key) : NumberAfter(s, key, i) # None}

\* The first comma-separated field of a line, stripped.
FirstField(line) ==
    LET commas == Occurrences(line, <<",">>)
    IN  Strip(SubSeq(line, 1, IF commas = {} THEN Len(line) ELSE Min(commas) - 1))

\* The record of the worked example: 0.732 = 732 * 10^-3, 1.204 = 1204 * 10^-3.
ExampleRow ==
    [logfile |-> "analysis_output.1.log", group |-> None,
     file |-> <<"t", "r", "i", "a", "l", "A", ".", "c", "s", "v">>,
     subject |-> None, condition |-> None,
     symb |-> Some(<<732, -3>>), perm |-> Some(<<1204, -3>>)]

\* C6 as stated: the file token is the first field, stripped; symb is the
\* literal after the first 'Symb:' of the normalised line, perm the one after
\* the first 'Perm:'.
C6_NumberAfterFirstKey ==
    \A k \in Kept :
        LET h == scanned[k]
            cl == CollapseSpaces(h.line)
        IN  /\ rows[h.row].file = FirstField(h.line)
            /\ Occurrences(cl, SymbLit) # {}
            /\ Occurrences(cl, PermLit) # {}
            /\ h.symb_m = NumberAfter(cl, SymbLit, Min(Occurrences(cl, SymbLit)))
            /\ h.perm_m = NumberAfter(cl, PermLit, Min(Occurrences(cl, PermLit)))

\* C6 amended: symb is the literal after the first 'Symb:' that a numeric
\* literal follows, perm the one after the first such 'Perm:'; the record
\* holds their values, and the worked example gives 0.732 and 1.204.
C6_NumberAfterFirstKeyWithNumber ==
    /\ \A k \in Kept :
        LET h == scanned[k]
            cl == CollapseSpaces(h.line)
        IN  /\ FieldCount(h.line) >= 3
            /\ rows[h.row].file = FirstField(h.line)
            /\ WithNumber(cl, SymbLit) # {}
            /\ WithNumber(cl, PermLit) # {}
            /\ h.symb_m = NumberAfter(cl, SymbLit, Min(WithNumber(cl, SymbLit)))
            /\ h.perm_m = NumberAfter(cl, PermLit, Min(WithNumber(cl, PermLit)))
            /\ rows[h.row].symb = Some(ToFloat(h.symb_m[1]))
            /\ rows[h.row].perm = Some(ToFloat(h.perm_m[1]))
    /\ (pc = "done" /\ text = ExampleLog) => rows = <<ExampleRow>>

\* A record from a line whose first 'Symb:' has no number and whose second
\* has one.
C6_Witness ==
    \E k \in Kept :
        LET cl == CollapseSpaces(scanned[k].line)
        IN  /\ WithNumber(cl, SymbLit) # {}
            /\ Min(Occurrences(cl, SymbLit)) < Min(WithNumber(cl, SymbLit))

\* C7: every record has a symb and a perm; a line in which no 'Symb:' or no
\* 'Perm:' is followed by a numeric literal yields no record.
C7_RecordsHaveBothNumbers ==
    /\ \A n \in 1..Len(rows) : rows[n].symb # None /\ rows[n].perm # None
    /\ \A k \in 1..Len(scanned) :
        LET cl == CollapseSpaces(scanned[k].line)
        IN  (WithNumber(cl, SymbLit) = {} \/ WithNumber(cl, PermLit) = {})
            => scanned[k].row = 0

\* A line of three fields with both keys, one of them without a number, was
\* visited and skipped.
C7_Witness ==
    \E k \in 1..Len(scanned) :
        LET cl == CollapseSpaces(scanned[k].line)
        IN  /\ FieldCount(scanned[k].line) >= 3
            /\ Occurrences(cl, SymbLit) # {}
            /\ Occurrences(cl, PermLit) # {}
            /\ WithNumber(cl, SymbLit) # {}
            /\ WithNumber(cl, PermLit) = {}
            /\ scanned[k].row = 0

\* The lines of the text, and the text without its n-th line.
TextLines ==
    SplitOn(text, "\n")

WithoutLine(ls, n) ==
    JoinWith(SubSeq(ls, 1, n - 1) \o SubSeq(ls, n + 1, Len(ls)), "\n")

\* A line that starts with 'File:', would give no record as the only line of
\* a section, and carries no group label.
IsMalformedLine(l) ==
    /\ MatchAt(l, FileLit, SkipSpaces(l, 1))
    /\ ParseLog(logfile, StartMarker \o NL \o l) = <<>>
    /\ LabelPositions(l) = {}

\* C8 as stated: a malformed line is skipped and changes nothing, so the
\* records are those of the text without that line.
C8_MalformedLineChangesNothing ==
    pc = "done" =>
        \A n \in 1..Len(TextLines) :
            IsMalformedLine(TextLines[n])
            => rows = ParseLog(logfile, WithoutLine(TextLines, n))

\* The first underscore of a file token.
FirstUnderscore(f) ==
    Min(Occurrences(f, <<"_">>))

\* The history entries whose record's file token holds an underscore.
KeptWithUnderscore ==
    {k \in Kept : Occurrences(rows[scanned[k].row].file, <<"_">>) # {}}

\* C9 as stated: the subject is what precedes the first run of underscores,
\* the condition what follows that run.
C9_SplitOnUnderscoreRun ==
    \A k \in KeptWithUnderscore :
        LET r == rows[scanned[k].row]
            i == FirstUnderscore(r.file)
            j == Min({n \in i..(Len(r.file) + 1) : n = Len(r.file) + 1 \/ r.file[n] # "_"})
        IN  /\ r.subject = Some(SubSeq(r.file, 1, i - 1))
            /\ r.condition = Some(SubSeq(r.file, j, Len(r.file)))

\* C9 amended: the subject is what precedes the first underscore, the
\* condition everything after that one underscore.
C9_SplitOnFirstUnderscore ==
    \A k \in KeptWithUnderscore :
        LET r == rows[scanned[k].row]
            i == FirstUnderscore(r.file)
        IN  /\ r.subject = Some(SubSeq(r.file, 1, i - 1))
            /\ r.condition = Some(SubSeq(r.file, i + 1, Len(r.file)))

\* A record whose token has two underscores in a row after a subject.
C9_Witness ==
    \E k \in KeptWithUnderscore :
        LET f == rows[scanned[k].row].file
        IN  \E i \in 2..(Len(f) - 1) :
                i = FirstUnderscore(f) /\ f[i + 1] = "_"

\* C10: on every token the 'S' branch and the fallback branch give the same
\* pair, and the record holds that pair whichever branch ran.
C10_BranchesAgree ==
    \A k \in KeptWithUnderscore :
        LET r == rows[scanned[k].row]
            parts_fname == SplitOn(r.file, "_")
        IN  /\ SplitIfS(parts_fname) = SplitElse(parts_fname)
            /\ r.subject = SplitElse(parts_fname).subject
            /\ r.condition = SplitElse(parts_fname).condition

\* A record whose token starts with a lower-case 's': the 'S' branch ran.
C10_Witness ==
    \E k \in KeptWithUnderscore :
        LET f == rows[scanned[k].row].file
        IN  f[1] = "s" /\ Len(f) >= 3

----------------------------------------------------------------------------
(* parse_condition: the Day, Block and Trial tokens of a condition. *)

\* Number of pieces a condition string is put together from.
MaxCondPieces == 4

\* The Python values parse_condition is given: None, a str, a number.
PyNone == [kind |-> "None"]

PyStr(s) == [kind |-> "str", val |-> s]

PyNum(n) == [kind |-> "num", val |-> n]

\* bool(v): None, the empty string and zero are false.
Truthy(v) ==
    CASE v.kind = "None" -> FALSE
      [] v.kind = "str" -> v.val # <<>>
      [] v.kind = "num" -> v.val # 0

\* isinstance(v, str)
IsStr(v) ==
    v.kind = "str"

\* (D\d{2})_(B\d{2})_(T\d{2}), one set of characters per position.
CondPattern ==
    <<{"D"}, Digits, Digits, {"_"}, {"B"}, Digits, Digits, {"_"}, {"T"}, Digits, Digits>>

\* The pattern matches in s at position i.
CondMatchAt(s, i) ==
    /\ i >= 1
    /\ i + Len(CondPattern) - 1 <= Len(s)
    /\ \A j \in 1..Len(CondPattern) : s[i + j - 1] \in CondPattern[j]

\* (None, None, None)
NoDBT == <<None, None, None>>

\* m.group(1), m.group(2), m.group(3) of the match at i
CondGroups(s, i) ==
    <<Some(SubSeq(s, i, i + 2)), Some(SubSeq(s, i + 4, i + 6)),
      Some(SubSeq(s, i + 8, i + 10))>>

\* Mutant: the rightmost match for the leftmost.
ParseConditionLast(c) ==
    IF ~Truthy(c) \/ ~IsStr(c) THEN NoDBT
    ELSE Let({i \in 1..Len(c.val) : CondMatchAt(c.val, i)},
             LAMBDA hits : IF hits = {} THEN NoDBT ELSE CondGroups(c.val, Max(hits)))

\* parse_condition(cond): re.search takes the leftmost match.
ParseCondition(c) ==
    IF ~Truthy(c) \/ ~IsStr(c) THEN NoDBT
    ELSE Let({i \in 1..Len(c.val) : CondMatchAt(c.val, i)},
             LAMBDA hits : IF hits = {} THEN NoDBT ELSE CondGroups(c.val, Min(hits)))

\* Pieces of condition strings: the three tokens in order, a second run,
\* a separator, a digit, a token with one digit.
CondPieces ==
    {<<"D", "0", "1", "_">>, <<"B", "0", "2", "_">>, <<"T", "0", "3">>, <<"D", "0", "4",
                                                                          "_", "B", "0",
                                                                          "5", "_", "T",
                                                                          "0", "6">>, <<
                                                                                                                                                                                                                                                                                                                                                                   "_">>, <<
                                                                                                                                                                                                                                                                                                                                                                                                                                                                                                                                                                                                                                                                                                                                                "5">>, <<
                                                                                                                                                                                                                                                                                                                                                                                                                                                                                                                                                                                                                                                                                                                                                                                                                                                                                                                                                                                                                                                                                                                                                                                                                                                                                                                                                                                                                                                                                                          "D",
                                                                                                                                                                                                                                                                                                                                                                                                                                                                                                                                                                                                                                                                                                                                                                                                                                                                                                                                                                                                                                                                                                                                                                                                                                                                                                                                                                                                                                                                                                          "1",
                                                                                                                                                                                                                                                                                                                                                                                                                                                                                                                                                                                                                                                                                                                                                                                                                                                                                                                                                                                                                                                                                                                                                                                                                                                                                                                                                                                                                                                                                                          "_">>}

CondExample ==
    <<"G", "0", "3", "_", "D", "0", "1", "_", "B", "0", "2", "_", "T", "0", "3", "_",
      "e", "x", "t", "r", "a">>

CondNoPattern ==
    <<"n", "o", "-", "p", "a", "t", "t", "e", "r", "n", "-", "h", "e", "r", "e">>

CondStrings ==
    {Concat(ps) : ps \in SeqsUpTo(CondPieces, MaxCondPieces)}
        \cup {CondExample, CondNoPattern}

CondValues ==
    {PyNone, PyNum(0), PyNum(5)} \cup {PyStr(w) : w \in CondStrings}

CondInit ==
    /\ cond \in CondValues
    /\ parsed = None
    /\ ParserIdle
    /\ MainIdle
    /\ ClassIdle
    /\ WalkIdle
    /\ StatIdle

\* parse_condition(cond) is called and returns.
CallParseCondition ==
    /\ parsed = None
    /\ parsed' = Some(ParseCondition(cond))
    /\ UNCHANGED <<cond, outside_cond>>

CondNext ==
    CallParseCondition

CondSpec == CondInit /\ [][CondNext]_condvars

\* A token: the letter and two digits.
IsToken(w, letter) ==
    /\ Len(w) = 3
    /\ w[1] = letter
    /\ w[2] \in Digits
    /\ w[3] \in Digits

\* The positions of s where a run Dnn_Bnn_Tnn starts.
TokenRuns(s) ==
    {i \in 1..(Len(s) - 10) :
        /\ IsToken(SubSeq(s, i, i + 2), "D")
        /\ s[i + 3] = "_"
        /\ IsToken(SubSeq(s, i + 4, i + 6), "B")
        /\ s[i + 7] = "_"
        /\ IsToken(SubSeq(s, i + 8, i + 10), "T")}

\* C11: parse_condition returns the three tokens of the leftmost run
\* Dnn_Bnn_Tnn of a string, and three nulls for None, for a value that is not
\* a string and for a string without such a run; the two worked examples give
\* (D01, B02, T03) and three nulls.
C11_TokensOfLeftmostRun ==
    parsed # None =>
        /\ cond.kind # "str" => parsed[1] = NoDBT
        /\ cond.kind = "str" =>
            LET runs == TokenRuns(cond.val)
                i == Min(runs)
            IN  IF runs = {} THEN parsed[1] = NoDBT
                ELSE parsed[1] = <<Some(SubSeq(cond.val, i, i + 2)),
                                   Some(SubSeq(cond.val, i + 4, i + 6)),
                                   Some(SubSeq(cond.val, i + 8, i + 10))>>
        /\ cond = PyStr(CondExample) =>
            parsed[1] = <<Some(<<"D", "0", "1">>), Some(<<"B", "0", "2">>), Some(<<"T",
                                                                                   "0",
                                                                                   "3">>)>>
        /\ cond = PyStr(CondNoPattern) => parsed[1] = NoDBT

\* A string with two runs of different tokens was decomposed.
C11_Witness ==
    /\ parsed # None
    /\ cond.kind = "str"
    /\ \E i, j \in TokenRuns(cond.val) :
        /\ i < j
        /\ SubSeq(cond.val, i, i + 2) # SubSeq(cond.val, j, j + 2)
    /\ parsed[1] # NoDBT

----------------------------------------------------------------------------
(* main of the entropy script: aggregate_logs. *)

\* Number of files in the working directory.
MaxLogs == 2

\* The ASCII characters of code points 32 to 95, in code-point order.
AsciiLow ==
    <<" ", "!", "\"", "#", "$", "%", "&", "'", "(", ")", "*", "+", ",", "-", ".", "/",
      "0", "1", "2", "3", "4", "5", "6", "7", "8", "9", ":", ";", "<", "=", ">", "?",
      "@", "A", "B", "C", "D", "E", "F", "G", "H", "I", "J", "K", "L", "M", "N", "O",
      "P", "Q", "R", "S", "T", "U", "V", "W", "X", "Y", "Z", "[", "\\", "]", "^", "_">>

\* The ASCII characters of code points 97 to 126, in code-point order.
AsciiHigh ==
    <<"a", "b", "c", "d", "e", "f", "g", "h", "i", "j", "k", "l", "m", "n", "o", "p",
      "q", "r", "s", "t", "u", "v", "w", "x", "y", "z", "{", "|", "}", "~">>

\* ord(c), for the characters that occur in the names of the model
CharCode(c) ==
    IF \E i \in 1..Len(AsciiLow) : AsciiLow[i] = c
    THEN 31 + (CHOOSE i \in 1..Len(AsciiLow) : AsciiLow[i] = c)
    ELSE 96 + (CHOOSE i \in 1..Len(AsciiHigh) : AsciiHigh[i] = c)

\* a < b for two str: by the code points of the first characters that differ,
\* a proper prefix being smaller.
LexLess(a, b) ==
    \E k \in 1..Len(b) :
        /\ k - 1 <= Len(a)
        /\ \A j \in 1..(k - 1) : a[j] = b[j]
        /\ \/ k = Len(a) + 1
           \/ k <= Len(a) /\ CharCode(a[k]) < CharCode(b[k])

\* l without its i-th element
RemoveAt(l, i) ==
    SubSeq(l, 1, i - 1) \o SubSeq(l, i + 1, Len(l))

\* Mutant: the listing is used as glob returned it.
Unsorted(l) ==
    l

\* sorted(l) for a list of str
RECURSIVE Sorted(_)
Sorted(l) ==
    IF l = <<>> THEN <<>>
    ELSE Let(CHOOSE i \in 1..Len(l) : \A j \in 1..Len(l) : ~LexLess(l[j], l[i]),
             LAMBDA i : <<l[i]>> \o Let(RemoveAt(l, i), LAMBDA rest : Sorted(rest)))

GlobPrefix ==
    <<"a", "n", "a", "l", "y", "s", "i", "s", "_", "o", "u", "t", "p", "u", "t", ".">>

GlobSuffix ==
    <<".", "l", "o", "g">>

\* The name matches the pattern analysis_output.*.log of glob.
GlobMatch(name) ==
    /\ Len(name) >= Len(GlobPrefix) + Len(GlobSuffix)
    /\ MatchAt(name, GlobPrefix, 1)
    /\ MatchAt(name, GlobSuffix, Len(name) - Len(GlobSuffix) + 1)

\* What glob.glob can return: the matching names of the directory in any order.
Listings(dir) ==
    Let({n \in DOMAIN dir : GlobMatch(n)},
        LAMBDA found :
            {l \in [1..Cardinality(found) -> found] :
                \A i, j \in 1..Cardinality(found) : i # j => l[i] # l[j]})

\* cond as parse_condition receives it from the condition column
PyOfOption(o) ==
    IF o = None THEN PyNone ELSE PyStr(o[1])

BaseColumns ==
    <<"logfile", "group", "file", "subject", "condition", "symb", "perm">>

DBTColumns ==
    <<"Day", "Block", "Trial">>

\* Mutant: only the day is kept of a match.
WithDayOnly(r) ==
    Let(ParseCondition(PyOfOption(r.condition)),
        LAMBDA t : r @@ ("Day" :> t[1]) @@ ("Block" :> None) @@ ("Trial" :> None))

\* The row with the three columns of parse_condition(row.condition).
WithDBT(r) ==
    Let(ParseCondition(PyOfOption(r.condition)),
        LAMBDA t : r @@ ("Day" :> t[1]) @@ ("Block" :> t[2]) @@ ("Trial" :> t[3]))

\* pd.DataFrame([])
EmptyFrame ==
    [columns |-> <<>>, data |-> <<>>]

\* Mutant: the table is never found empty.
NeverEmpty(d) ==
    FALSE

\* df.empty
DataFrameEmpty(d) ==
    d.columns = <<>> \/ d.data = <<>>

NoEntriesMessage ==
    "No individual entropy entries found in logs"

NoDataMessage ==
    "No data to plot. Exiting."

\* Names in the working directory: three that match the pattern (in
\* lexicographic order 1, 10, 2) and one that does not.
DirNames ==
    {<<"a", "n", "a", "l", "y", "s", "i", "s", "_", "o", "u", "t", "p", "u", "t", ".",
       "1", ".", "l", "o", "g">>, <<
                                                                                                                           "a",
                                                                                                                           "n",
                                                                                                                           "a",
                                                                                                                           "l",
                                                                                                                           "y",
                                                                                                                           "s",
                                                                                                                           "i",
                                                                                                                           "s",
                                                                                                                           "_",
                                                                                                                           "o",
                                                                                                                           "u",
                                                                                                                           "t",
                                                                                                                           "p",
                                                                                                                           "u",
                                                                                                                           "t",
                                                                                                                           ".",
                                                                                                                           "1",
                                                                                                                           "0",
                                                                                                                           ".",
                                                                                                                           "l",
                                                                                                                           "o",
                                                                                                                           "g">>,
     <<"a", "n", "a", "l", "y", "s", "i", "s", "_", "o", "u", "t", "p", "u", "t", ".",
       "2", ".", "l", "o", "g">>, <<
                                                                                                                           "a",
                                                                                                                           "n",
                                                                                                                           "a",
                                                                                                                           "l",
                                                                                                                           "y",
                                                                                                                           "s",
                                                                                                                           "i",
                                                                                                                           "s",
                                                                                                                           "_",
                                                                                                                           "o",
                                                                                                                           "u",
                                                                                                                           "t",
                                                                                                                           "p",
                                                                                                                           "u",
                                                                                                                           "t",
                                                                                                                           ".",
                                                                                                                           "l",
                                                                                                                           "o",
                                                                                                                           "g">>}

\* No section.
TextNoSection ==
    <<"A", "n", "a", "l", "y", "s", "i", "s", " ", "s", "t", "a", "r", "t", "e", "d", "\n">>

\* Two records under a label: one with the three tokens, one without.
TextOld ==
    StartMarker \o <<"\n", "G", "r", "o", "u", "p", ":", " ", "o", "l", "d", "\n", "F",
                     "i", "l", "e", ":", " ", "S", "1", "_", "G", "0", "3", "_", "D",
                     "0", "1", "_", "B", "0", "2", "_", "T", "0", "3", ",", " ", "S",
                     "y", "m", "b", ":", " ", "0", ".", "5", ",", " ", "P", "e", "r",
                     "m", ":", " ", "1", ".", "5", "\n", "F", "i", "l", "e", ":", " ",
                     "S", "2", "_", "x", ",", " ", "S", "y", "m", "b", ":", " ", "2",
                     "0", ",", " ", "P", "e", "r", "m", ":", " ", "3", "\n">>

\* One record whose subject is all digits, with a small value.
TextDigits ==
    StartMarker \o <<"\n", "G", "r", "o", "u", "p", ":", " ", "y", "o", "u", "n", "g",
                     "\n", "F", "i", "l", "e", ":", " ", "0", "0", "1", "_", "D", "0",
                     "2", "_", "B", "0", "1", "_", "T", "0", "1", ",", " ", "S", "y",
                     "m", "b", ":", " ", "1", "e", "-", "5", ",", " ", "P", "e", "r",
                     "m", ":", " ", "2", "\n">>

\* One record without label, subject or condition.
TextExample ==
    ExampleLog

\* A section whose only line has too few fields.
TextNoRecord ==
    StartMarker \o <<"\n", "F", "i", "l", "e", ":", " ", "S", "3", "_", "D", "0", "1",
                     "_", "B", "0", "1", "_", "T", "0", "1", "\n">>

\* No day in any record, a record before the first label, an empty subject,
\* a condition that is an NA word and a quote in a name.
TextMixed ==
    StartMarker \o <<"\n", "F", "i", "l", "e", ":", " ", "_", "N", "A", ",", " ", "S",
                     "y", "m", "b", ":", " ", "-", "2", ".", "5", "e", "2", "0", ",",
                     " ", "P", "e", "r", "m", ":", " ", "0", "\n", "G", "r", "o", "u",
                     "p", ":", " ", "y", "o", "u", "n", "g", "\n", "F", "i", "l", "e",
                     ":", " ", "S", "\"", "4", "_", "x", ",", " ", "S", "y", "m", "b",
                     ":", " ", "2", "0", ",", " ", "P", "e", "r", "m", ":", " ", "3", "\n">>

LogTexts ==
    {TextNoSection, TextOld, TextDigits, TextExample, TextNoRecord, TextMixed}

Directories ==
    UNION {[names -> LogTexts] :
            names \in {ns \in SUBSET DirNames : Cardinality(ns) <= MaxLogs}}

MainInit ==
    /\ logdir \in Directories
    /\ files = <<>>
    /\ nextfile = 1
    /\ allrows = <<>>
    /\ df = None
    /\ mpc = "start"
    /\ stdout = <<>>
    /\ figures = <<>>
    /\ readback = None
    /\ ParserIdle
    /\ CondIdle
    /\ ClassIdle
    /\ WalkIdle
    /\ StatIdle

\* files = sorted(glob.glob(pattern)); allrows = []
GlobSorted ==
    /\ mpc = "start"
    /\ \E listing \in Listings(logdir) : files' = Sorted(listing)
    /\ nextfile' = 1
    /\ allrows' = <<>>
    /\ mpc' = "parse"
    /\ UNCHANGED <<logdir, df, stdout, figures, readback, outside_main>>

\* rows = parse_log_file(p); allrows.extend(rows)
ParseFile ==
    /\ mpc = "parse"
    /\ nextfile <= Len(files)
    /\ \E p \in {files[nextfile]} :
        allrows' = allrows \o ParseLog(p, logdir[p])
    /\ nextfile' = nextfile + 1
    /\ UNCHANGED <<logdir, files, df, mpc, stdout, figures, readback, outside_main>>

\* df = pd.DataFrame(allrows) is empty: the message, return df
ReturnEmpty ==
    /\ mpc = "parse"
    /\ nextfile > Len(files)
    /\ \E d \in {IF allrows = <<>> THEN EmptyFrame
                 ELSE [columns |-> BaseColumns, data |-> allrows]} :
        /\ DataFrameEmpty(d)
        /\ df' = d
    /\ stdout' = Append(stdout, NoEntriesMessage)
    /\ mpc' = "aggregated"
    /\ UNCHANGED <<logdir, files, nextfile, allrows, figures, readback, outside_main>>

\* df[['Day','Block','Trial']] = df['condition'].apply(...); return df
Decompose ==
    /\ mpc = "parse"
    /\ nextfile > Len(files)
    /\ \E d \in {IF allrows = <<>> THEN EmptyFrame
                 ELSE [columns |-> BaseColumns, data |-> allrows]} :
        /\ ~DataFrameEmpty(d)
        /\ df' = [columns |-> d.columns \o DBTColumns,
                  data |-> [i \in 1..Len(d.data) |-> WithDBT(d.data[i])]]
    /\ mpc' = "aggregated"
    /\ UNCHANGED <<logdir, files, nextfile, allrows, stdout, figures, readback,
                   outside_main>>

\* main: if df.empty: print, return
ExitNoData ==
    /\ mpc = "aggregated"
    /\ DataFrameEmpty(df)
    /\ stdout' = Append(stdout, NoDataMessage)
    /\ mpc' = "exited"
    /\ UNCHANGED <<logdir, files, nextfile, allrows, df, figures, readback,
                   outside_main>>

----------------------------------------------------------------------------
(* main of the entropy script: plot_individual_distribution. *)

\* str.lower() on one character
LowerChar(c) ==
    IF \E i \in 1..26 : UpperCase[i] = c
    THEN LowerCase[CHOOSE i \in 1..26 : UpperCase[i] = c]
    ELSE c

\* str.capitalize()
Capitalize(s) ==
    [i \in 1..Len(s) |-> IF i = 1 THEN UpperChar(s[i]) ELSE LowerChar(s[i])]

Unknown ==
    <<"U", "n", "k", "n", "o", "w", "n">>

\* df['Day'].fillna('Unknown') + ' ' + df['group'].str.capitalize(), for one
\* row: null where the group is null.
DayGroupOf(r) ==
    IF r.group = None THEN None
    ELSE Some((IF r.Day = None THEN Unknown ELSE r.Day[1])
                \o <<" ">> \o Capitalize(r.group[1]))

\* df['Day_group'] = ...: the column is added to the table itself.
WithDayGroup(d) ==
    [columns |-> d.columns \o <<"Day_group">>,
     data |-> [i \in 1..Len(d.data) |->
                 d.data[i] @@ ("Day_group" :> DayGroupOf(d.data[i]))]]

\* sorted(df['Day_group'].unique()) is reached (no day was parsed) and has a
\* null to compare with a str: TypeError.
OrderRaises(d) ==
    /\ \A i \in 1..Len(d.data) : d.data[i].Day = None
    /\ \E i, j \in 1..Len(d.data) :
        d.data[i].Day_group = None /\ d.data[j].Day_group # None

Out1 ==
    <<"i", "n", "d", "i", "v", "i", "d", "u", "a", "l", "_", "s", "y", "m", "b", "_",
      "e", "n", "t", "r", "o", "p", "y", "_", "o", "v", "e", "r", "a", "l", "l", ".",
      "p", "n", "g">>

Out2 ==
    <<"i", "n", "d", "i", "v", "i", "d", "u", "a", "l", "_", "s", "y", "m", "b", "_",
      "e", "n", "t", "r", "o", "p", "y", "_", "b", "y", "_", "d", "a", "y", ".", "p",
      "n", "g">>

CsvOut ==
    <<"i", "n", "d", "i", "v", "i", "d", "u", "a", "l", "_", "e", "n", "t", "r", "o",
      "p", "i", "e", "s", "_", "e", "x", "t", "r", "a", "c", "t", "e", "d", ".", "c",
      "s", "v">>

\* What savefig leaves in a file.
Image ==
    <<"P", "N", "G">>

\* The first chart is drawn and saved.
SaveOverall ==
    /\ mpc = "aggregated"
    /\ ~DataFrameEmpty(df)
    /\ figures' = (Out1 :> Image) @@ figures
    /\ mpc' = "overall"
    /\ UNCHANGED <<logdir, files, nextfile, allrows, df, stdout, readback, outside_main>>

\* df['Day_group'] = ...
AddDayGroup ==
    /\ mpc = "overall"
    /\ df' = WithDayGroup(df)
    /\ mpc' = "daygroup"
    /\ UNCHANGED <<logdir, files, nextfile, allrows, stdout, figures, readback,
                   outside_main>>

\* order = sorted(df['Day_group'].unique()) raises.
SortOrderRaises ==
    /\ mpc = "daygroup"
    /\ OrderRaises(df)
    /\ mpc' = "raised"
    /\ UNCHANGED <<logdir, files, nextfile, allrows, df, stdout, figures, readback,
                   outside_main>>

\* The second chart is drawn and saved.
SaveByDay ==
    /\ mpc = "daygroup"
    /\ ~OrderRaises(df)
    /\ figures' = (Out2 :> Image) @@ figures
    /\ mpc' = "byday"
    /\ UNCHANGED <<logdir, files, nextfile, allrows, df, stdout, readback, outside_main>>

\* Mutant: the exception of a charting call is caught; the chart is not
\* saved and the function goes on.
ChartRaisesCaught ==
    /\ \/ mpc = "aggregated" /\ ~DataFrameEmpty(df) /\ mpc' = "overall"
       \/ mpc = "daygroup" /\ ~OrderRaises(df) /\ mpc' = "byday"
    /\ UNCHANGED <<logdir, files, nextfile, allrows, df, stdout, figures, readback,
                   outside_main>>

\* A call of the charting library raises on the table it is given.
ChartRaises ==
    /\ \/ mpc = "aggregated" /\ ~DataFrameEmpty(df)
       \/ mpc = "daygroup" /\ ~OrderRaises(df)
    /\ mpc' = "raised"
    /\ UNCHANGED <<logdir, files, nextfile, allrows, df, stdout, figures, readback,
                   outside_main>>

----------------------------------------------------------------------------
(* df.to_csv(csv_out, index=False) *)

DigitChars ==
    <<"0", "1", "2", "3", "4", "5", "6", "7", "8", "9">>

RECURSIVE NatToDigits(_)
NatToDigits(n) ==
    IF n < 10 THEN <<DigitChars[n + 1]>>
    ELSE Let(n \div 10, LAMBDA q : NatToDigits(q)) \o <<DigitChars[(n % 10) + 1]>>

Zeros(k) ==
    [i \in 1..k |-> "0"]

\* repr of the float m * 10^e (m not divisible by 10): the digits of m, in
\* fixed notation when the exponent of the first digit is in -4..15 and in
\* scientific notation, with two exponent digits at least, otherwise.
FloatRepr(v) ==
    IF v[1] = 0 THEN <<"0", ".", "0">>
    ELSE Let([D |-> NatToDigits(IF v[1] < 0 THEN 0 - v[1] ELSE v[1]), e |-> v[2],
              sign |-> IF v[1] < 0 THEN <<"-">> ELSE <<>>],
             LAMBDA a :
                 Let([n |-> Len(a.D), x |-> Len(a.D) + a.e - 1],
                     LAMBDA b :
                         a.sign \o
                         (IF b.x >= -4 /\ b.x < 16
                          THEN IF a.e >= 0
                               THEN a.D \o Zeros(a.e) \o <<".", "0">>
                               ELSE IF b.n + a.e > 0
                               THEN SubSeq(a.D, 1, b.n + a.e) \o <<".">>
                                      \o SubSeq(a.D, b.n + a.e + 1, b.n)
                               ELSE <<"0", ".">> \o Zeros(0 - (b.n + a.e)) \o a.D
                          ELSE <<a.D[1]>>
                                 \o (IF b.n > 1 THEN <<".">> \o Tail(a.D) ELSE <<>>)
                                 \o <<"e">>
                                 \o (IF b.x < 0 THEN <<"-">> ELSE <<"+">>)
                                 \o Let(IF b.x < 0 THEN 0 - b.x ELSE b.x,
                                        LAMBDA ax :
                                            IF ax < 10 THEN <<"0">> \o NatToDigits(ax)
                                            ELSE NatToDigits(ax)))))

\* The characters the csv writer quotes a field for.
QuoteTriggers ==
    {",", "\"", "\n", "\r"}

\* A str field as the csv writer emits it (QUOTE_MINIMAL, doubled quotes).
CsvQuoted(w) ==
    IF \E i \in 1..Len(w) : w[i] \in QuoteTriggers
    THEN <<"\"">>
           \o Concat([i \in 1..Len(w) |-> IF w[i] = "\"" THEN <<"\"", "\"">> ELSE <<w[i]>>])
           \o <<"\"">>
    ELSE w

FloatColumns ==
    {"symb", "perm"}

\* One cell: a float by its repr, a null as the empty field, a str as it is.
CsvCell(col, v) ==
    IF v = None THEN <<>>
    ELSE IF col \in FloatColumns THEN FloatRepr(v[1])
    ELSE CsvQuoted(v[1])

\* Column names are written as words of the header line.
ColumnText ==
    [logfile |-> <<"l", "o", "g", "f", "i", "l", "e">>, group |-> <<"g", "r", "o", "u",
                                                                    "p">>, file |-> <<
                                                                                                                                                                              "f",
                                                                                                                                                                              "i",
                                                                                                                                                                              "l",
                                                                                                                                                                              "e">>,
     subject |-> <<"s", "u", "b", "j", "e", "c", "t">>, condition |-> <<"c", "o", "n",
                                                                        "d", "i", "t",
                                                                        "i", "o", "n">>, symb |-> <<
                                                                                                                                                                                                                                                                                  "s",
                                                                                                                                                                                                                                                                                  "y",
                                                                                                                                                                                                                                                                                  "m",
                                                                                                                                                                                                                                                                                  "b">>,
     perm |-> <<"p", "e", "r", "m">>, Day |-> <<"D", "a", "y">>, Block |-> <<"B", "l",
                                                                             "o", "c", "k">>, Trial |-> <<
                                                                                                                                                                                                 "T",
                                                                                                                                                                                                 "r",
                                                                                                                                                                                                 "i",
                                                                                                                                                                                                 "a",
                                                                                                                                                                                                 "l">>,
     Day_group |-> <<"D", "a", "y", "_", "g", "r", "o", "u", "p">>]

\* The text of the file: the header line, then one line per row.
ToCsv(d) ==
    JoinWith([i \in 1..Len(d.columns) |-> ColumnText[d.columns[i]]], ",") \o NL
      \o Concat([i \in 1..Len(d.data) |->
                   JoinWith([k \in 1..Len(d.columns) |->
                               CsvCell(d.columns[k],
                                       IF d.columns[k] = "logfile"
                                       THEN Some(d.data[i].logfile)
                                       ELSE IF d.columns[k] = "file"
                                       THEN Some(d.data[i].file)
                                       ELSE d.data[i][d.columns[k]])], ",") \o NL])

SavedLines ==
    <<"Saved: figures/individual_symb_entropy_overall.png",
      "Saved: figures/individual_symb_entropy_by_day.png",
      "Saved extracted CSV: figures/individual_entropies_extracted.csv">>

\* df.to_csv(csv_out, index=False); return; main prints the three paths.
WriteCsv ==
    /\ mpc = "byday"
    /\ figures' = (CsvOut :> ToCsv(df)) @@ figures
    /\ stdout' = stdout \o SavedLines
    /\ mpc' = "saved"
    /\ UNCHANGED <<logdir, files, nextfile, allrows, df, readback, outside_main>>

----------------------------------------------------------------------------
(* pd.read_csv('figures/individual_entropies_extracted.csv') *)

\* The body of a quoted field from position j: its text and the position
\* after the closing quote.
RECURSIVE QuotedBody(_, _)
QuotedBody(l, j) ==
    IF j > Len(l) THEN [val |-> <<>>, next |-> j]
    ELSE IF l[j] = "\""
    THEN IF j + 1 <= Len(l) /\ l[j + 1] = "\""
         THEN Let(QuotedBody(l, j + 2),
                  LAMBDA r : [val |-> <<"\"">> \o r.val, next |-> r.next])
         ELSE [val |-> <<>>, next |-> j + 1]
    ELSE Let(QuotedBody(l, j + 1),
             LAMBDA r : [val |-> <<l[j]>> \o r.val, next |-> r.next])

\* The fields of one line from position i.
RECURSIVE CsvFields(_, _)
CsvFields(l, i) ==
    IF i <= Len(l) /\ l[i] = "\""
    THEN Let(QuotedBody(l, i + 1),
             LAMBDA r : <<r.val>> \o (IF r.next <= Len(l)
                                      THEN CsvFields(l, r.next + 1)
                                      ELSE <<>>))
    ELSE Let(Min({k \in i..(Len(l) + 1) : k = Len(l) + 1 \/ l[k] = ","}),
             LAMBDA k : <<SubSeq(l, i, k - 1)>>
                          \o (IF k <= Len(l) THEN CsvFields(l, k + 1) ELSE <<>>))

\* The default na_values of read_csv.
NaStrings ==
    {<<>>, <<"#", "N", "/", "A">>, <<"#", "N", "/", "A", " ", "N", "/", "A">>, <<"#",
                                                                                 "N", "A">>, <<
                                                                                                                                                                                     "-",
                                                                                                                                                                                     "1",
                                                                                                                                                                                     ".",
                                                                                                                                                                                     "#",
                                                                                                                                                                                     "I",
                                                                                                                                                                                     "N",
                                                                                                                                                                                     "D">>, <<
                                                                                                                                                                                                                                                                                                                                                                                                                                                                                                                                                                                                                                                                                                                                                                                                                                                                                                                                                                                                                                                                                                                                                                                                                                                                                                                                                                                                                                                                                                                                                "-",
                                                                                                                                                                                                                                                                                                                                                                                                                                                                                                                                                                                                                                                                                                                                                                                                                                                                                                                                                                                                                                                                                                                                                                                                                                                                                                                                                                                                                                                                                                                                                "1",
                                                                                                                                                                                                                                                                                                                                                                                                                                                                                                                                                                                                                                                                                                                                                                                                                                                                                                                                                                                                                                                                                                                                                                                                                                                                                                                                                                                                                                                                                                                                                ".",
                                                                                                                                                                                                                                                                                                                                                                                                                                                                                                                                                                                                                                                                                                                                                                                                                                                                                                                                                                                                                                                                                                                                                                                                                                                                                                                                                                                                                                                                                                                                                "#",
                                                                                                                                                                                                                                                                                                                                                                                                                                                                                                                                                                                                                                                                                                                                                                                                                                                                                                                                                                                                                                                                                                                                                                                                                                                                                                                                                                                                                                                                                                                                                "Q",
                                                                                                                                                                                                                                                                                                                                                                                                                                                                                                                                                                                                                                                                                                                                                                                                                                                                                                                                                                                                                                                                                                                                                                                                                                                                                                                                                                                                                                                                                                                                                "N",
                                                                                                                                                                                                                                                                                                                                                                                                                                                                                                                                                                                                                                                                                                                                                                                                                                                                                                                                                                                                                                                                                                                                                                                                                                                                                                                                                                                                                                                                                                                                                "A",
                                                                                                                                                                                                                                                                                                                                                                                                                                                                                                                                                                                                                                                                                                                                                                                                                                                                                                                                                                                                                                                                                                                                                                                                                                                                                                                                                                                                                                                                                                                                                "N">>, <<
                                                                                                                                                                                                                                                                                                                                                                                                                                                                                                                                                                                                                                                                                                                                                                                                                                                                                                                                                                                                                                                                                                                                                                                                                                                                                                                                                                                                                                                                                                                                                                                                                                                                                                                                                                                                                                                                                                                                                                                                                                                                                                                                                                                                                                                                                                                                                                                                                                                                                                                                                                                                                                                                                                                                                                                                                                                                                                                                                                                                                                                                                                                                                                                                                                                                                                                                                                                                                                                                                                                                                                                                                                                                                                                                                                                                                                                                                                                                                                                                                                                                                                                                                                                                                                                                                                                                                                                                                                                                                                                                                                                                                                                                                                                                                                                                                                                                                                                                                                                                                                                                                                                                                                                                                                                                                                                                                                                                                                                                                                                                                                                                                                                                                                                                                                                                                                                                                                                                                                                                                                                                                                                                                                                                                                                                                                                                                                                                                                                                                                                                                                                                                                                                                                                                                                                                                                                                                                                                                                                                                                                                                                                                                                                                                                                                                                                                                                                                                                                                                                                                                                                                                                                                                                                                                                                                                                                                                                                                                                                                                                                                                                                                                                                                                                                                                                                                                                                                                                                                                                                                                                                                                                                                                                                                                                                                                                                                                                                                                                                                                                                                                                                                                                                                                                                                                                                                                                                                                                                                                                                                                                                                                                                                                                                                                                                                                                                                                                                                                                                                                                                                                                                                                                                                                                                                                                                                                                                                                                                                                                                                                                                                                                                                                                                                                                                                                                                                                                                                                                                                                                                                                                                                                                                                                                                                                                                                                                                                                                                                                                                                                                                                                                                                                                                                                                                                                                                                                                                                                                                                                                                                                                                                                                                                                                                                                                                                                                                                                                                                                                                                                                                                                                                                                                                                                                                                                                                                                                                                                                                                                                                                                                                                                                                                                                                                                                                                                                                                                                                                                                                                                                                                                                                                                                                                                                                                                                                                                                                                                                                             "-",
                                                                                                                                                                                                                                                                                                                                                                                                                                                                                                                                                                                                                                                                                                                                                                                                                                                                                                                                                                                                                                                                                                                                                                                                                                                                                                                                                                                                                                                                                                                                                                                                                                                                                                                                                                                                                                                                                                                                                                                                                                                                                                                                                                                                                                                                                                                                                                                                                                                                                                                                                                                                                                                                                                                                                                                                                                                                                                                                                                                                                                                                                                                                                                                                                                                                                                                                                                                                                                                                                                                                                                                                                                                                                                                                                                                                                                                                                                                                                                                                                                                                                                                                                                                                                                                                                                                                                                                                                                                                                                                                                                                                                                                                                                                                                                                                                                                                                                                                                                                                                                                                                                                                                                                                                                                                                                                                                                                                                                                                                                                                                                                                                                                                                                                                                                                                                                                                                                                                                                                                                                                                                                                                                                                                                                                                                                                                                                                                                                                                                                                                                                                                                                                                                                                                                                                                                                                                                                                                                                                                                                                                                                                                                                                                                                                                                                                                                                                                                                                                                                                                                                                                                                                                                                                                                                                                                                                                                                                                                                                                                                                                                                                                                                                                                                                                                                                                                                                                                                                                                                                                                                                                                                                                                                                                                                                                                                                                                                                                                                                                                                                                                                                                                                                                                                                                                                                                                                                                                                                                                                                                                                                                                                                                                                                                                                                                                                                                                                                                                                                                                                                                                                                                                                                                                                                                                                                                                                                                                                                                                                                                                                                                                                                                                                                                                                                                                                                                                                                                                                                                                                                                                                                                                                                                                                                                                                                                                                                                                                                                                                                                                                                                                                                                                                                                                                                                                                                                                                                                                                                                                                                                                                                                                                                                                                                                                                                                                                                                                                                                                                                                                                                                                                                                                                                                                                                                                                                                                                                                                                                                                                                                                                                                                                                                                                                                                                                                                                                                                                                                                                                                                                                                                                                                                                                                                                                                                                                                                                                                                                                             "N",
                                                                                                                                                                                                                                                                                                                                                                                                                                                                                                                                                                                                                                                                                                                                                                                                                                                                                                                                                                                                                                                                                                                                                                                                                                                                                                                                                                                                                                                                                                                                                                                                                                                                                                                                                                                                                                                                                                                                                                                                                                                                                                                                                                                                                                                                                                                                                                                                                                                                                                                                                                                                                                                                                                                                                                                                                                                                                                                                                                                                                                                                                                                                                                                                                                                                                                                                                                                                                                                                                                                                                                                                                                                                                                                                                                                                                                                                                                                                                                                                                                                                                                                                                                                                                                                                                                                                                                                                                                                                                                                                                                                                                                                                                                                                                                                                                                                                                                                                                                                                                                                                                                                                                                                                                                                                                                                                                                                                                                                                                                                                                                                                                                                                                                                                                                                                                                                                                                                                                                                                                                                                                                                                                                                                                                                                                                                                                                                                                                                                                                                                                                                                                                                                                                                                                                                                                                                                                                                                                                                                                                                                                                                                                                                                                                                                                                                                                                                                                                                                                                                                                                                                                                                                                                                                                                                                                                                                                                                                                                                                                                                                                                                                                                                                                                                                                                                                                                                                                                                                                                                                                                                                                                                                                                                                                                                                                                                                                                                                                                                                                                                                                                                                                                                                                                                                                                                                                                                                                                                                                                                                                                                                                                                                                                                                                                                                                                                                                                                                                                                                                                                                                                                                                                                                                                                                                                                                                                                                                                                                                                                                                                                                                                                                                                                                                                                                                                                                                                                                                                                                                                                                                                                                                                                                                                                                                                                                                                                                                                                                                                                                                                                                                                                                                                                                                                                                                                                                                                                                                                                                                                                                                                                                                                                                                                                                                                                                                                                                                                                                                                                                                                                                                                                                                                                                                                                                                                                                                                                                                                                                                                                                                                                                                                                                                                                                                                                                                                                                                                                                                                                                                                                                                                                                                                                                                                                                                                                                                                                                                                                             "a",
                                                                                                                                                                                                                                                                                                                                                                                                                                                                                                                                                                                                                                                                                                                                                                                                                                                                                                                                                                                                                                                                                                                                                                                                                                                                                                                                                                                                                                                                                                                                                                                                                                                                                                                                                                                                                                                                                                                                                                                                                                                                                                                                                                                                                                                                                                                                                                                                                                                                                                                                                                                                                                                                                                                                                                                                                                                                                                                                                                                                                                                                                                                                                                                                                                                                                                                                                                                                                                                                                                                                                                                                                                                                                                                                                                                                                                                                                                                                                                                                                                                                                                                                                                                                                                                                                                                                                                                                                                                                                                                                                                                                                                                                                                                                                                                                                                                                                                                                                                                                                                                                                                                                                                                                                                                                                                                                                                                                                                                                                                                                                                                                                                                                                                                                                                                                                                                                                                                                                                                                                                                                                                                                                                                                                                                                                                                                                                                                                                                                                                                                                                                                                                                                                                                                                                                                                                                                                                                                                                                                                                                                                                                                                                                                                                                                                                                                                                                                                                                                                                                                                                                                                                                                                                                                                                                                                                                                                                                                                                                                                                                                                                                                                                                                                                                                                                                                                                                                                                                                                                                                                                                                                                                                                                                                                                                                                                                                                                                                                                                                                                                                                                                                                                                                                                                                                                                                                                                                                                                                                                                                                                                                                                                                                                                                                                                                                                                                                                                                                                                                                                                                                                                                                                                                                                                                                                                                                                                                                                                                                                                                                                                                                                                                                                                                                                                                                                                                                                                                                                                                                                                                                                                                                                                                                                                                                                                                                                                                                                                                                                                                                                                                                                                                                                                                                                                                                                                                                                                                                                                                                                                                                                                                                                                                                                                                                                                                                                                                                                                                                                                                                                                                                                                                                                                                                                                                                                                                                                                                                                                                                                                                                                                                                                                                                                                                                                                                                                                                                                                                                                                                                                                                                                                                                                                                                                                                                                                                                                                                                                                             "N">>,
     <<"-", "n", "a", "n">>, <<"1", ".", "#", "I", "N", "D">>, <<"1", ".", "#", "Q", "N",
                                                                 "A", "N">>, <<
                                                                                                                                                                         "<",
                                                                                                                                                                         "N",
                                                                                                                                                                         "A",
                                                                                                                                                                         ">">>, <<
                                                                                                                                                                                                                                                                                                                                                                                                                                                                                                                                                                                                                                                                                                                                                                                                                                                                                                      "N",
                                                                                                                                                                                                                                                                                                                                                                                                                                                                                                                                                                                                                                                                                                                                                                                                                                                                                                      "/",
                                                                                                                                                                                                                                                                                                                                                                                                                                                                                                                                                                                                                                                                                                                                                                                                                                                                                                      "A">>, <<
                                                                                                                                                                                                                                                                                                                                                                                                                                                                                                                                                                                                                                                                                                                                                                                                                                                                                                                                                                                                                                                                                                                                                                                                                                                                                                                                                                                                                                                                                                                                                                                                                                                                                                                                                                                                                                                                                                                                                                                                                                                                                                                                                                                                                                                                                                                                                                                                                                                                                                                                                                                                                                                                                                                                                                                                                                                                                                                                                                                                                                                                                                                                                                                                                                                                                                                                                                                                                                                                                                                                                                                                                                            "N",
                                                                                                                                                                                                                                                                                                                                                                                                                                                                                                                                                                                                                                                                                                                                                                                                                                                                                                                                                                                                                                                                                                                                                                                                                                                                                                                                                                                                                                                                                                                                                                                                                                                                                                                                                                                                                                                                                                                                                                                                                                                                                                                                                                                                                                                                                                                                                                                                                                                                                                                                                                                                                                                                                                                                                                                                                                                                                                                                                                                                                                                                                                                                                                                                                                                                                                                                                                                                                                                                                                                                                                                                                                            "A">>, <<
                                                                                                                                                                                                                                                                                                                                                                                                                                                                                                                                                                                                                                                                                                                                                                                                                                                                                                                                                                                                                                                                                                                                                                                                                                                                                                                                                                                                                                                                                                                                                                                                                                                                                                                                                                                                                                                                                                                                                                                                                                                                                                                                                                                                                                                                                                                                                                                                                                                                                                                                                                                                                                                                                                                                                                                                                                                                                                                                                                                                                                                                                                                                                                                                                                                                                                                                                                                                                                                                                                                                                                                                                                                                                                                                                                                                                                                                                                                                                                                                                                                                                                                                                                                                                                                                                                                                                                                                                                                                                                                                                                                                                                                                                                                                                                                                                                                                                                                                                                                                                                                                                                                                                                                                                                                                                                                                                                                                                                                                                                                                                                                                                                                                                                                                                                                                                                                                                                                                                                                                                                                                                                                                                                                                                                                                                                                                                                                                                                                                                                                                                                                                                                                                                                                                                                                                                                                                                                                                                                                                                                                                                                                                                                                                                                                                                                                                                                                                                                                                                                                                                                                                                                                                                                                                                                                                                                                                                                                                                                                                                                                                                                                                                                                                                                                                                                                                                                                                                                                                                                                                                                                                                                                                                                                                                                                                                                                                                                                                                                                                                                                                                                                                                                                                                                                                                                                                                                                                                                                                                                                                                                                                                                                                                                                                                                                                                                                                                                                                                                                                                                                                                                                                                                                                                                                                                                                                                                                                                                                                                                                                                                                                                                                                                                                                                                                                                                                                                                                                                   "N",
                                                                                                                                                                                                                                                                                                                                                                                                                                                                                                                                                                                                                                                                                                                                                                                                                                                                                                                                                                                                                                                                                                                                                                                                                                                                                                                                                                                                                                                                                                                                                                                                                                                                                                                                                                                                                                                                                                                                                                                                                                                                                                                                                                                                                                                                                                                                                                                                                                                                                                                                                                                                                                                                                                                                                                                                                                                                                                                                                                                                                                                                                                                                                                                                                                                                                                                                                                                                                                                                                                                                                                                                                                                                                                                                                                                                                                                                                                                                                                                                                                                                                                                                                                                                                                                                                                                                                                                                                                                                                                                                                                                                                                                                                                                                                                                                                                                                                                                                                                                                                                                                                                                                                                                                                                                                                                                                                                                                                                                                                                                                                                                                                                                                                                                                                                                                                                                                                                                                                                                                                                                                                                                                                                                                                                                                                                                                                                                                                                                                                                                                                                                                                                                                                                                                                                                                                                                                                                                                                                                                                                                                                                                                                                                                                                                                                                                                                                                                                                                                                                                                                                                                                                                                                                                                                                                                                                                                                                                                                                                                                                                                                                                                                                                                                                                                                                                                                                                                                                                                                                                                                                                                                                                                                                                                                                                                                                                                                                                                                                                                                                                                                                                                                                                                                                                                                                                                                                                                                                                                                                                                                                                                                                                                                                                                                                                                                                                                                                                                                                                                                                                                                                                                                                                                                                                                                                                                                                                                                                                                                                                                                                                                                                                                                                                                                                                                                                                                                                                                                   "U",
                                                                                                                                                                                                                                                                                                                                                                                                                                                                                                                                                                                                                                                                                                                                                                                                                                                                                                                                                                                                                                                                                                                                                                                                                                                                                                                                                                                                                                                                                                                                                                                                                                                                                                                                                                                                                                                                                                                                                                                                                                                                                                                                                                                                                                                                                                                                                                                                                                                                                                                                                                                                                                                                                                                                                                                                                                                                                                                                                                                                                                                                                                                                                                                                                                                                                                                                                                                                                                                                                                                                                                                                                                                                                                                                                                                                                                                                                                                                                                                                                                                                                                                                                                                                                                                                                                                                                                                                                                                                                                                                                                                                                                                                                                                                                                                                                                                                                                                                                                                                                                                                                                                                                                                                                                                                                                                                                                                                                                                                                                                                                                                                                                                                                                                                                                                                                                                                                                                                                                                                                                                                                                                                                                                                                                                                                                                                                                                                                                                                                                                                                                                                                                                                                                                                                                                                                                                                                                                                                                                                                                                                                                                                                                                                                                                                                                                                                                                                                                                                                                                                                                                                                                                                                                                                                                                                                                                                                                                                                                                                                                                                                                                                                                                                                                                                                                                                                                                                                                                                                                                                                                                                                                                                                                                                                                                                                                                                                                                                                                                                                                                                                                                                                                                                                                                                                                                                                                                                                                                                                                                                                                                                                                                                                                                                                                                                                                                                                                                                                                                                                                                                                                                                                                                                                                                                                                                                                                                                                                                                                                                                                                                                                                                                                                                                                                                                                                                                                                                                                   "L",
                                                                                                                                                                                                                                                                                                                                                                                                                                                                                                                                                                                                                                                                                                                                                                                                                                                                                                                                                                                                                                                                                                                                                                                                                                                                                                                                                                                                                                                                                                                                                                                                                                                                                                                                                                                                                                                                                                                                                                                                                                                                                                                                                                                                                                                                                                                                                                                                                                                                                                                                                                                                                                                                                                                                                                                                                                                                                                                                                                                                                                                                                                                                                                                                                                                                                                                                                                                                                                                                                                                                                                                                                                                                                                                                                                                                                                                                                                                                                                                                                                                                                                                                                                                                                                                                                                                                                                                                                                                                                                                                                                                                                                                                                                                                                                                                                                                                                                                                                                                                                                                                                                                                                                                                                                                                                                                                                                                                                                                                                                                                                                                                                                                                                                                                                                                                                                                                                                                                                                                                                                                                                                                                                                                                                                                                                                                                                                                                                                                                                                                                                                                                                                                                                                                                                                                                                                                                                                                                                                                                                                                                                                                                                                                                                                                                                                                                                                                                                                                                                                                                                                                                                                                                                                                                                                                                                                                                                                                                                                                                                                                                                                                                                                                                                                                                                                                                                                                                                                                                                                                                                                                                                                                                                                                                                                                                                                                                                                                                                                                                                                                                                                                                                                                                                                                                                                                                                                                                                                                                                                                                                                                                                                                                                                                                                                                                                                                                                                                                                                                                                                                                                                                                                                                                                                                                                                                                                                                                                                                                                                                                                                                                                                                                                                                                                                                                                                                                                                                                                   "L">>,
     <<"N", "a", "N">>, <<"N", "o", "n", "e">>, <<"n", "/", "a">>, <<"n", "a", "n">>, <<
                                                                                        "n",
                                                                                        "u",
                                                                                        "l",
                                                                                        "l">>}

\* An optional sign and digits.
IsIntText(w) ==
    /\ Len(Unsigned(w)) >= 1
    /\ \A i \in 1..Len(Unsigned(w)) : Unsigned(w)[i] \in Digits

\* A text the parser converts to a float (the literals num_re describes).
IsFloatText(w) ==
    IsNumLit(w)

\* The value of an integer text.
IntOf(w) ==
    IF w[1] = "-" THEN 0 - DigitsToNat(Unsigned(w)) ELSE DigitsToNat(Unsigned(w))

NaN == [kind |-> "nan"]

PyFloat(v) == [kind |-> "float", val |-> v]

\* The values of one column, by the type the parser infers for it: int64 when
\* every cell is an integer text, float64 when every cell that is not NA is
\* a number, str (object) otherwise; NA cells are NaN.
InferColumn(cells) ==
    Let([present |-> {i \in 1..Len(cells) : cells[i] \notin NaStrings}],
        LAMBDA a :
            IF a.present # {} /\ a.present = 1..Len(cells)
                 /\ \A i \in a.present : IsIntText(cells[i])
            THEN [i \in 1..Len(cells) |-> PyNum(IntOf(cells[i]))]
            ELSE IF \A i \in a.present : IsIntText(cells[i]) \/ IsFloatText(cells[i])
            THEN [i \in 1..Len(cells) |->
                    IF i \in a.present THEN PyFloat(ToFloat(cells[i])) ELSE NaN]
            ELSE [i \in 1..Len(cells) |->
                    IF i \in a.present THEN PyStr(cells[i]) ELSE NaN])

\* The lines of the file, without the empty text after the last newline.
CsvLines(t) ==
    Let(SplitOn(t, "\n"),
        LAMBDA ls : IF ls[Len(ls)] = <<>> THEN SubSeq(ls, 1, Len(ls) - 1) ELSE ls)

\* The table read: the header's names, and per row the inferred values.
ReadCsv(t) ==
    Let([ls |-> [i \in 1..Len(CsvLines(t)) |-> CsvFields(CsvLines(t)[i], 1)]],
        LAMBDA a :
            Let([cols |-> [k \in 1..Len(a.ls[1]) |->
                             InferColumn([i \in 1..(Len(a.ls) - 1) |-> a.ls[i + 1][k]])]],
                LAMBDA b :
                    [columns |-> a.ls[1],
                     data |-> [i \in 1..(Len(a.ls) - 1) |->
                                 [k \in 1..Len(a.ls[1]) |-> b.cols[k][i]]]]))

\* An analysis script reads the snapshot the run wrote.
ReadSnapshot ==
    /\ mpc = "saved"
    /\ readback' = Some(ReadCsv(figures[CsvOut]))
    /\ mpc' = "read"
    /\ UNCHANGED <<logdir, files, nextfile, allrows, df, stdout, figures, outside_main>>

MainNext ==
    \/ GlobSorted
    \/ ParseFile
    \/ ReturnEmpty
    \/ Decompose
    \/ ExitNoData
    \/ SaveOverall
    \/ AddDayGroup
    \/ SortOrderRaises
    \/ SaveByDay
    \/ ChartRaises
    \/ WriteCsv
    \/ ReadSnapshot

MainSpec == MainInit /\ [][MainNext]_mainvars

----------------------------------------------------------------------------
(* Properties of the table aggregate_logs returns. *)

\* The table is the one aggregate_logs returned, or a later state of it.
Returned ==
    mpc \notin {"start", "parse"}

\* s occurs in w as a contiguous run.
IsSubstring(s, w) ==
    \E i \in 1..(Len(w) - Len(s) + 1) : SubSeq(w, i, i + Len(s) - 1) = s

\* C12: in every row of a non-empty table aggregate_logs returned, Day, Block
\* and Trial are all null or all non-null; when non-null they are D, B and T
\* followed by two digits, and Day_Block_Trial is a contiguous substring of
\* the row's condition.
C12_MatchOrNothing ==
    (Returned /\ ~DataFrameEmpty(df)) =>
        \A i \in 1..Len(df.data) :
            LET r == df.data[i]
            IN  \/ r.Day = None /\ r.Block = None /\ r.Trial = None
                \/ /\ r.Day # None /\ r.Block # None /\ r.Trial # None
                   /\ IsToken(r.Day[1], "D")
                   /\ IsToken(r.Block[1], "B")
                   /\ IsToken(r.Trial[1], "T")
                   /\ r.condition # None
                   /\ IsSubstring(r.Day[1] \o <<"_">> \o r.Block[1] \o <<"_">> \o r.Trial[1],
                                  r.condition[1])

\* A returned table with a row that has the three tokens and a row that has
\* none.
C12_Witness ==
    /\ mpc = "aggregated"
    /\ ~DataFrameEmpty(df)
    /\ \E i, j \in 1..Len(df.data) :
        /\ df.data[i].Day # None /\ df.data[i].Trial # None
        /\ df.data[j].Day = None /\ df.data[j].condition # None

\* The record parse_log_file made, of a row of the table.
BaseOf(r) ==
    [c \in {BaseColumns[k] : k \in 1..Len(BaseColumns)} |-> r[c]]

\* The records of the table that came from the file p, in the table's order.
RecordsOf(d, p) ==
    Let(SelectSeq(d.data, LAMBDA r : r.logfile = p),
        LAMBDA sel : [i \in 1..Len(sel) |-> BaseOf(sel[i])])

\* C13: in the table aggregate_logs returned, the records of a
\* lexicographically smaller path come before those of a larger path; the
\* records of each matching file are those parse_log_file returns for it, in
\* that order, none lost and none twice; and every record comes from a
\* matching file.
C13_FilesInLexOrder ==
    (Returned /\ ~DataFrameEmpty(df)) =>
        /\ \A i, j \in 1..Len(df.data) :
            i < j => ~LexLess(df.data[j].logfile, df.data[i].logfile)
        /\ \A p \in DOMAIN logdir :
            GlobMatch(p) => RecordsOf(df, p) = ParseLog(p, logdir[p])
        /\ \A i \in 1..Len(df.data) :
            df.data[i].logfile \in DOMAIN logdir /\ GlobMatch(df.data[i].logfile)

\* A returned table with records of analysis_output.10.log and of
\* analysis_output.2.log, one of the files having two records.
C13_Witness ==
    /\ mpc = "aggregated"
    /\ ~DataFrameEmpty(df)
    /\ \E i, j \in 1..Len(df.data) :
        /\ i < j
        /\ df.data[i].logfile = <<"a", "n", "a", "l", "y", "s", "i", "s", "_", "o", "u",
                                  "t", "p", "u", "t", ".", "1", "0", ".", "l", "o", "g">>
        /\ df.data[j].logfile = <<"a", "n", "a", "l", "y", "s", "i", "s", "_", "o", "u",
                                  "t", "p", "u", "t", ".", "2", ".", "l", "o", "g">>
    /\ Len(df.data) >= 3

\* No file matches the pattern, or no matching file yields a record.
NoData ==
    \A p \in DOMAIN logdir : GlobMatch(p) => ParseLog(p, logdir[p]) = <<>>

\* C14: when no file matches or no record survives parsing, aggregate_logs
\* prints its message and returns an empty table, nothing raises, and main
\* prints its message and exits: no chart is drawn, no snapshot is written,
\* no step of the plotting function runs and nothing reads a snapshot.
C14_EmptyExitsEarly ==
    NoData =>
        /\ mpc \in {"start", "parse", "aggregated", "exited"}
        /\ figures = <<>>
        /\ readback = None
        /\ Returned =>
            /\ DataFrameEmpty(df)
            /\ df = EmptyFrame
            /\ stdout[1] = NoEntriesMessage
        /\ mpc = "aggregated" => stdout = <<NoEntriesMessage>>
        /\ mpc = "exited" => stdout = <<NoEntriesMessage, NoDataMessage>>

\* main has exited on a directory that holds a matching log with a section
\* but no record, and a file that does not match.
C14_Witness ==
    /\ mpc = "exited"
    /\ \E p, q \in DOMAIN logdir :
        /\ GlobMatch(p)
        /\ logdir[p] = TextNoRecord
        /\ ~GlobMatch(q)
        /\ ParseLog(q, logdir[q]) # <<>>

----------------------------------------------------------------------------
(* Properties of the snapshot. *)

\* The columns of the table aggregate_logs returns.
TenColumns ==
    BaseColumns \o DBTColumns

\* The header line of the snapshot, as a list of names.
SnapshotHeader ==
    CsvFields(CsvLines(figures[CsvOut])[1], 1)

\* C15: the snapshot has the columns logfile, group, file, subject,
\* condition, symb, perm, Day, Block, Trial, and the table keeps these columns
\* while the charts are drawn.
C15_SnapshotColumns ==
    /\ (Returned /\ ~DataFrameEmpty(df)) => df.columns = TenColumns
    /\ CsvOut \in DOMAIN figures =>
        SnapshotHeader = [k \in 1..Len(TenColumns) |-> ColumnText[TenColumns[k]]]

\* The columns the round trip is stated for.
TupleColumns ==
    {"subject", "condition", "symb", "perm", "Day", "Block", "Trial"}

\* A value of the table as a value read back would have to be.
CellOf(col, v) ==
    IF v = None THEN NaN
    ELSE IF col \in FloatColumns THEN PyFloat(v[1])
    ELSE PyStr(v[1])

\* The value of column col in row i of the table read.
ReadCell(t, i, col) ==
    t.data[i][CHOOSE k \in 1..Len(t.columns) : t.columns[k] = ColumnText[col]]

\* C16: the table read back from the snapshot has, row for row, the
\* (subject, condition, symb, perm, Day, Block, Trial) of the table written,
\* a null being read as a null.
C16_RoundTrip ==
    mpc = "read" =>
        /\ Len(readback[1].data) = Len(df.data)
        /\ \A i \in 1..Len(df.data) : \A col \in TupleColumns :
            ReadCell(readback[1], i, col) = CellOf(col, df.data[i][col])

----------------------------------------------------------------------------
(* classify_and_verify.py: main. A path is the list of its components under
   root; the directory is the function from the paths of its files to their
   bytes. *)

\* Number of files in the root directory before the first run.
MaxFiles == 2

\* Number of runs of the program.
MaxRuns == 2

\* The contents of files: two of size 1 and two of size 2.
Contents ==
    {<<"x">>, <<"y">>, <<"x", "y">>, <<"y", "x">>}

ByteWeight(b) ==
    IF b = "x" THEN 1 ELSE 2

\* md5(p): a digest of the bytes, which two contents can share (here the
\* digest of x,y is the digest of y,x).
RECURSIVE Md5(_)
Md5(c) ==
    IF c = <<>> THEN 0 ELSE ByteWeight(c[1]) + Md5(Tail(c))

\* st_size
Size(c) ==
    Len(c)

ByCondition ==
    <<"b", "y", "_", "c", "o", "n", "d", "i", "t", "i", "o", "n">>

CsvPattern ==
    <<"S", "*", "_", "G", "*", "_", "D", "*", "_", "B", "*", "_", "T", "*", ".", "c",
      "s", "v">>

\* fnmatch of a name against a pattern whose only wildcard is *.
RECURSIVE Fnmatch(_, _)
Fnmatch(pat, name) ==
    IF pat = <<>> THEN name = <<>>
    ELSE IF pat[1] = "*"
    THEN \E k \in 0..Len(name) :
            Let(SubSeq(name, k + 1, Len(name)), LAMBDA rest : Fnmatch(Tail(pat), rest))
    ELSE /\ name # <<>>
         /\ name[1] = pat[1]
         /\ Let(Tail(name), LAMBDA rest : Fnmatch(Tail(pat), rest))

\* out in p.parents
UnderOut(p) ==
    Len(p) >= 2 /\ p[1] = ByCondition

\* The files root.rglob(pattern) yields that are not under out.
Scan(d) ==
    {p \in DOMAIN d : Fnmatch(CsvPattern, p[Len(p)]) /\ ~UnderOut(p)}

\* The orders rglob can yield them in.
Orders(S) ==
    {l \in [1..Cardinality(S) -> S] :
        \A i, j \in 1..Cardinality(S) : i # j => l[i] # l[j]}

\* fname.split("_", 1)[1][:-4]
CondOf(fname) ==
    Let(Min({k \in 1..Len(fname) : fname[k] = "_"}),
        LAMBDA k : SubSeq(fname, k + 1, Len(fname) - 4))

\* Mutant: the file is put into the output directory itself.
DstFlat(src) ==
    <<ByCondition, src[Len(src)]>>

\* dst = out / cond / fname
DstOf(src) ==
    <<ByCondition, CondOf(src[Len(src)]), src[Len(src)]>>

\* Mutant: every file is copied.
NeedCopyAlways(d, src, dst) ==
    TRUE

\* Mutant: the checksums are not compared.
NeedCopyBySize(d, src, dst) ==
    \/ dst \notin DOMAIN d
    \/ Size(d[src]) # Size(d[dst])

\* need_copy
NeedCopy(d, src, dst) ==
    \/ dst \notin DOMAIN d
    \/ Size(d[src]) # Size(d[dst])
    \/ Md5(d[src]) # Md5(d[dst])

\* shutil.copy2(src, dst)
Copy2(d, src, dst) ==
    [p \in DOMAIN d \cup {dst} |-> IF p = dst THEN d[src] ELSE d[p]]

NameA ==
    <<"S", "1", "_", "G", "3", "_", "D", "1", "_", "B", "1", "_", "T", "1", ".", "c",
      "s", "v">>

NameB ==
    <<"S", "2", "_", "G", "3", "_", "D", "1", "_", "B", "1", "_", "T", "1", ".", "c",
      "s", "v">>

NameOther ==
    <<"S", "3", "_", "G", "3", "_", "D", "1", "_", "B", "1", ".", "c", "s", "v">>

\* The files the root directory can hold before the first run: the same name
\* in two directories, a second subject of the same condition at the top, a
\* name that does not match, and a file already in the output tree.
InitPaths ==
    {<<<<"d", "1">>, NameA>>, <<<<"d", "2">>, NameA>>, <<NameB>>, <<<<"d", "1">>, NameOther>>,
     <<ByCondition, CondOf(NameB), NameB>>}

Trees ==
    UNION {[ps -> Contents] :
            ps \in {qs \in SUBSET InitPaths : Cardinality(qs) <= MaxFiles}}

ClassInit ==
    /\ disk \in Trees
    /\ csvs = <<>>
    /\ nextsrc = 1
    /\ copied = 0
    /\ repaired = 0
    /\ cpc = "start"
    /\ nruns = 0
    /\ copylog = <<>>
    /\ prevdisk = <<>>
    /\ touched = {}
    /\ printed = <<>>
    /\ ParserIdle
    /\ CondIdle
    /\ MainIdle
    /\ WalkIdle
    /\ StatIdle

\* print of line 32
NotFoundLine ==
    [line |-> "not found"]

\* print of line 35
FoundLine(n) ==
    [line |-> "found", files |-> n]

\* print of line 55: len(csvs), copied and repaired as the text shows them
SummaryLine(n, c, r) ==
    [line |-> "summary", checked |-> n, copied |-> c, repaired |-> r]

\* print of line 56
WhereLine ==
    [line |-> "where"]

\* What the interpreter prints for an exception nothing catches.
TracebackLine ==
    [line |-> "traceback"]

\* Mutant: the exception is caught in the loop and the next file is taken.
Swallowed ==
    "loop"

\* Where main is after an exception in the loop: nothing catches it.
Uncaught ==
    "raised"

\* What a copy that fails can leave at dst: nothing written, or the first
\* bytes of the source.
PartialCopies(d, src, dst) ==
    {d} \cup {[p \in DOMAIN d \cup {dst} |->
                 IF p = dst THEN SubSeq(d[src], 1, n) ELSE d[p]] :
                n \in 0..(Len(d[src]) - 1)}

\* csvs is empty: the message, return
ScanNone ==
    /\ cpc = "start"
    /\ Scan(disk) = {}
    /\ csvs' = <<>>
    /\ nruns' = nruns + 1
    /\ copylog' = <<>>
    /\ printed' = <<NotFoundLine>>
    /\ cpc' = "done"
    /\ UNCHANGED <<disk, nextsrc, copied, repaired, prevdisk, touched, outside_class>>

\* csvs = [...]; the message; copied, repaired = 0, 0
ScanSome ==
    /\ cpc = "start"
    /\ Scan(disk) # {}
    /\ \E found \in Orders(Scan(disk)) :
        /\ csvs' = found
        /\ printed' = <<FoundLine(Len(found))>>
    /\ nruns' = nruns + 1
    /\ nextsrc' = 1
    /\ copied' = 0
    /\ repaired' = 0
    /\ copylog' = <<>>
    /\ cpc' = "loop"
    /\ UNCHANGED <<disk, prevdisk, touched, outside_class>>

\* One pass of the loop with need_copy true.
CopyFile ==
    /\ cpc = "loop"
    /\ nextsrc <= Len(csvs)
    /\ \E src \in {csvs[nextsrc]} : \E need_copy \in {NeedCopy(disk, src, DstOf(src))} :
        /\ need_copy
        /\ disk' = Copy2(disk, src, DstOf(src))
        /\ copylog' = Append(copylog, [src |-> src, existed |-> DstOf(src) \in DOMAIN disk])
    /\ repaired' = repaired + 1
    /\ copied' = copied + 1
    /\ nextsrc' = nextsrc + 1
    /\ UNCHANGED <<csvs, cpc, nruns, prevdisk, touched, printed, outside_class>>

\* One pass of the loop with need_copy false.
KeepFile ==
    /\ cpc = "loop"
    /\ nextsrc <= Len(csvs)
    /\ \E src \in {csvs[nextsrc]} : \E need_copy \in {NeedCopy(disk, src, DstOf(src))} :
        ~need_copy
    /\ copied' = copied + 1
    /\ nextsrc' = nextsrc + 1
    /\ UNCHANGED <<disk, csvs, repaired, cpc, nruns, copylog, prevdisk, touched, printed,
                   outside_class>>

\* mkdir, exists, stat or md5 raises OSError for the file of this pass.
CompareRaises ==
    /\ cpc = "loop"
    /\ nextsrc <= Len(csvs)
    /\ cpc' = Uncaught
    /\ printed' = Append(printed, TracebackLine)
    /\ UNCHANGED <<disk, csvs, nextsrc, copied, repaired, nruns, copylog, prevdisk,
                   touched, outside_class>>

\* need_copy is true and shutil.copy2 raises OSError.
CopyRaises ==
    /\ cpc = "loop"
    /\ nextsrc <= Len(csvs)
    /\ \E src \in {csvs[nextsrc]} : \E need_copy \in {NeedCopy(disk, src, DstOf(src))} :
        /\ need_copy
        /\ disk' \in PartialCopies(disk, src, DstOf(src))
        /\ copylog' = Append(copylog, [src |-> src, existed |-> DstOf(src) \in DOMAIN disk])
    /\ cpc' = Uncaught
    /\ printed' = Append(printed, TracebackLine)
    /\ UNCHANGED <<csvs, nextsrc, copied, repaired, nruns, prevdisk, touched,
                   outside_class>>

\* The loop ends: the two messages, return.
Finish ==
    /\ cpc = "loop"
    /\ nextsrc > Len(csvs)
    /\ printed' = printed \o <<SummaryLine(Len(csvs), copied, repaired), WhereLine>>
    /\ cpc' = "done"
    /\ UNCHANGED <<disk, csvs, nextsrc, copied, repaired, nruns, copylog, prevdisk,
                   touched, outside_class>>

\* The program is run again on the same root.
RunAgain ==
    /\ cpc = "done"
    /\ nruns < MaxRuns
    /\ cpc' = "start"
    /\ prevdisk' = disk
    /\ touched' = {}
    /\ UNCHANGED <<disk, csvs, nextsrc, copied, repaired, nruns, copylog, printed,
                   outside_class>>

\* Before the next run scans, something alters the bytes of a file of the
\* output tree.
Corrupt ==
    /\ cpc = "start"
    /\ nruns >= 1
    /\ touched = {}
    /\ \E p \in {q \in DOMAIN disk : UnderOut(q)} : \E c \in Contents \ {disk[p]} :
        /\ disk' = [disk EXCEPT ![p] = c]
        /\ touched' = {[path |-> p, bytes |-> c]}
    /\ UNCHANGED <<csvs, nextsrc, copied, repaired, cpc, nruns, copylog, prevdisk,
                   printed, outside_class>>

ClassNext ==
    \/ ScanNone
    \/ ScanSome
    \/ CopyFile
    \/ KeepFile
    \/ CompareRaises
    \/ CopyRaises
    \/ Finish
    \/ RunAgain
    \/ Corrupt

ClassSpec == ClassInit /\ [][ClassNext]_classvars

----------------------------------------------------------------------------
(* Properties of the classifier. *)

\* The file at path p is there with the size and the checksum of content c.
Matches(d, p, c) ==
    /\ p \in DOMAIN d
    /\ Len(d[p]) = Len(c)
    /\ Md5(d[p]) = Md5(c)

\* The files of the output tree this step wrote or created, by their bytes.
Rewritten ==
    {p \in DOMAIN disk' : UnderOut(p) /\ (p \notin DOMAIN disk \/ disk'[p] # disk[p])}

\* C17: in a pass of the loop, a file is copied only if its destination is
\* missing or differs from it in size or in checksum; a destination that is
\* there with equal size and equal checksum gets no copy and the directory
\* stays as it is; and nothing in the output tree changes but the
\* destination of a file that is copied.
C17_CopyOnlyIfNeeded ==
    [][cpc = "loop" /\ nextsrc <= Len(csvs) =>
        LET src == csvs[nextsrc]
            dst == DstOf(src)
        IN  /\ copylog' # copylog => ~Matches(disk, dst, disk[src])
            /\ Matches(disk, dst, disk[src]) => copylog' = copylog /\ disk' = disk
            /\ Rewritten # {} => copylog' # copylog /\ Rewritten = {dst}]_classvars

\* In one run a file was copied and another was left as it was.
C17_Witness ==
    /\ cpc = "loop"
    /\ nextsrc = 3
    /\ Len(copylog) = 1
    /\ copied = 2
    /\ repaired = 1

\* A run has ended that followed another with nothing altered in between
\* (the source files are never altered).
SecondRunUntouched ==
    cpc = "done" /\ nruns >= 2 /\ touched = {}

\* C18: a second run over an unchanged source tree copies nothing and leaves
\* the checksum of every destination file as the first run left it.
C18_SecondRunCopiesNothing ==
    SecondRunUntouched =>
        /\ copylog = <<>>
        /\ \A p \in DOMAIN prevdisk :
            UnderOut(p) => p \in DOMAIN disk /\ Md5(disk[p]) = Md5(prevdisk[p])

\* The positions of csvs whose file has the destination p.
SourcesOf(p) ==
    {i \in 1..Len(csvs) : DstOf(csvs[i]) = p}

\* The positions of copylog whose file has the destination p.
CopiesTo(p) ==
    {k \in 1..Len(copylog) : DstOf(copylog[k].src) = p}

\* C19: when a run ends that followed an alteration of a destination file,
\* the file has the size and the checksum of its source (of the last one
\* scanned, would several files have this destination); and if the altered
\* bytes differed from the source (from each such file) in size or in
\* checksum, the run copied the source over them: the file has the bytes of
\* the last copy made to it.
C19_AlteredDestinationRestored ==
    (cpc = "done" /\ nruns >= 2) =>
        \A t \in touched :
            SourcesOf(t.path) # {} =>
                /\ Matches(disk, t.path, disk[csvs[Max(SourcesOf(t.path))]])
                /\ (\A i \in SourcesOf(t.path) :
                        \/ Len(t.bytes) # Len(disk[csvs[i]])
                        \/ Md5(t.bytes) # Md5(disk[csvs[i]])) =>
                    /\ CopiesTo(t.path) # {}
                    /\ disk[t.path] = disk[copylog[Max(CopiesTo(t.path))].src]

\* A run has ended that copied the source over a destination whose bytes
\* had been altered without a change of size.
C19_Witness ==
    /\ cpc = "done"
    /\ nruns >= 2
    /\ \E t \in touched :
        /\ Cardinality(SourcesOf(t.path)) = 1
        /\ Len(t.bytes) = Len(disk[t.path])
        /\ Md5(t.bytes) # Md5(disk[t.path])
        /\ CopiesTo(t.path) # {}
        /\ disk[t.path] = disk[csvs[Max(SourcesOf(t.path))]]

\* C20: when a run has ended, every file the scan found has its destination
\* in the output tree, with the file's size and checksum.
C20_EverySourceAccountedFor ==
    (cpc = "done" /\ nruns >= 1) =>
        \A i \in 1..Len(csvs) : Matches(disk, DstOf(csvs[i]), disk[csvs[i]])

\* C26: the summary of a run reports as copied the number of files a copy
\* was performed for in the run, and as repaired the number of those copies
\* whose destination was there before the copy.
C26_ReportedCounts ==
    (cpc = "done" /\ csvs # <<>>) =>
        /\ printed[2].copied = Len(copylog)
        /\ printed[2].repaired = Cardinality({k \in 1..Len(copylog) : copylog[k].existed})

\* C23: once an OSError was raised in a pass of the loop, the run has ended
\* at that file: the passes made are those of the files before it, the
\* found line and the traceback are all that was printed, no summary, and
\* the run takes no further step.
C23_ErrorEndsRun ==
    (\E k \in 1..Len(printed) : printed[k] = TracebackLine) =>
        /\ cpc = "raised"
        /\ nextsrc <= Len(csvs)
        /\ copied = nextsrc - 1
        /\ printed = <<FoundLine(Len(csvs)), TracebackLine>>
        /\ ~ENABLED ClassNext

\* The copy of the second file failed after the first file was copied.
C23_Witness ==
    /\ cpc = "raised"
    /\ nextsrc = 2
    /\ copied = 1
    /\ Len(copylog) = 2
    /\ DstOf(copylog[2].src) \in DOMAIN disk
    /\ disk[DstOf(copylog[2].src)] # disk[copylog[2].src]

\* C27: in a log with several start markers only the first section is
\* parsed: every record's 'File:' line lies before the second start marker.
C27_OnlyFirstSection ==
    \A k \in Kept :
        \A later \in Occurrences(text, StartMarker) :
            later > Min(Occurrences(text, StartMarker)) => boff + scanned[k].pos < later

\* C28: a row of the returned table whose file token has no underscore has a
\* null subject, a null condition and null Day, Block and Trial; and the
\* line of the worked example, whose token trialA.csv has none, is in the
\* table with its two values.
C28_NoUnderscoreNullColumns ==
    (Returned /\ ~DataFrameEmpty(df)) =>
        /\ \A i \in 1..Len(df.data) :
            LET r == df.data[i]
            IN  (\A c \in 1..Len(r.file) : r.file[c] # "_") =>
                    /\ r.subject = None
                    /\ r.condition = None
                    /\ r.Day = None
                    /\ r.Block = None
                    /\ r.Trial = None
        /\ \A p \in DOMAIN logdir :
            (GlobMatch(p) /\ logdir[p] = ExampleLog) =>
                \E i \in 1..Len(df.data) :
                    BaseOf(df.data[i]) = [ExampleRow EXCEPT !.logfile = p]

\* The table has a row without underscore in its file token after a row with
\* the three tokens.
C28_Witness ==
    /\ mpc = "aggregated"
    /\ ~DataFrameEmpty(df)
    /\ \E i, j \in 1..Len(df.data) :
        /\ i < j
        /\ df.data[i].Day # None
        /\ df.data[j].file = <<"t", "r", "i", "a", "l", "A", ".", "c", "s", "v">>
        /\ df.data[j].Day = None

\* The three output files of the plotting function are there.
AllOutputs(f) ==
    {Out1, Out2, CsvOut} \subseteq DOMAIN f

\* C29: the snapshot is written in a step that finds both chart images saved,
\* and once it is there no output file is written again; a run that ended
\* in an exception of the plotting function has no snapshot; and the three
\* 'Saved' lines are printed in a step after which the three outputs exist.
C29_SnapshotAfterCharts ==
    [][/\ (CsvOut \notin DOMAIN figures /\ CsvOut \in DOMAIN figures') =>
            {Out1, Out2} \subseteq DOMAIN figures
       /\ CsvOut \in DOMAIN figures => figures' = figures
       /\ mpc' = "raised" => CsvOut \notin DOMAIN figures'
       /\ (\E k \in 1..Len(stdout') : stdout'[k] \in {SavedLines[n] : n \in 1..3}) =>
            /\ AllOutputs(figures')
            /\ \/ stdout' = stdout
               \/ stdout' = stdout \o SavedLines /\ ~AllOutputs(figures)]_mainvars

\* The run has saved the two charts, written the snapshot and printed the
\* three lines.
C29_Witness ==
    /\ mpc = "saved"
    /\ AllOutputs(figures)
    /\ figures[Out1] = Image
    /\ figures[Out2] = Image
    /\ figures[CsvOut] = ToCsv(df)
    /\ stdout = SavedLines

----------------------------------------------------------------------------
(* classify of classify_by_condition.py: os.walk over root_dir, which lists
   a directory when it comes to it, and a copy of every file whose name
   passes the two tests. *)

\* f.lower().endswith('.csv')
EndsWithCsv(f) ==
    /\ Len(f) >= 4
    /\ [i \in 1..4 |-> LowerChar(f[Len(f) - 4 + i])] = <<".", "c", "s", "v">>

\* The tests of the inner loop: the extension, the first letter, and
\* len(f.split('_', 1)) == 2.
Classified(f) ==
    /\ EndsWithCsv(f)
    /\ f[1] = "S"
    /\ \E k \in 1..Len(f) : f[k] = "_"

\* p lies in the directory dir or below it.
Below(p, dir) ==
    Len(p) > Len(dir) /\ SubSeq(p, 1, Len(dir)) = dir

\* The files of the directory dir.
FilesIn(d, dir) ==
    {p[Len(p)] : p \in {q \in DOMAIN d : Below(q, dir) /\ Len(q) = Len(dir) + 1}}

\* The directories of the directory dir; os.makedirs(out_base) has made
\* by_condition in the root.
SubdirsIn(d, dir) ==
    {SubSeq(p, 1, Len(dir) + 1) :
        p \in {q \in DOMAIN d : Below(q, dir) /\ Len(q) > Len(dir) + 1}}
    \cup (IF dir = <<>> THEN {<<ByCondition>>} ELSE {})

\* A name the tests of the inner loop reject.
NameSkipped ==
    <<"s", "9", "_", "G", "3", "_", "D", "1", "_", "B", "1", "_", "T", "1", ".", "c",
      "s", "v">>

WalkTrees ==
    UNION {[ps -> Contents] :
            ps \in {qs \in SUBSET (InitPaths \cup {<<NameSkipped>>}) :
                        Cardinality(qs) <= MaxFiles}}

WalkInit ==
    /\ wdisk \in WalkTrees
    /\ pending = <<<<>>>>
    /\ wcur = <<>>
    /\ wfiles = <<>>
    /\ count = 0
    /\ wpc = "walk"
    /\ wlog = <<>>
    /\ wprinted = <<>>
    /\ ParserIdle
    /\ CondIdle
    /\ MainIdle
    /\ ClassIdle
    /\ StatIdle

\* for cur, _, files in os.walk(root_dir): the next directory is listed, in
\* any order, and its directories are walked before the ones that waited.
ListDir ==
    /\ wpc = "walk"
    /\ pending # <<>>
    /\ wcur' = pending[1]
    /\ wfiles' \in Orders(FilesIn(wdisk, pending[1]))
    /\ \E dirs \in Orders(SubdirsIn(wdisk, pending[1])) : pending' = dirs \o Tail(pending)
    /\ UNCHANGED <<wdisk, count, wpc, wlog, wprinted, outside_walk>>

\* continue
SkipName ==
    /\ wpc = "walk"
    /\ wfiles # <<>>
    /\ ~Classified(wfiles[1])
    /\ wfiles' = Tail(wfiles)
    /\ UNCHANGED <<wdisk, pending, wcur, count, wpc, wlog, wprinted, outside_walk>>

\* The line printed after every 50th copy.
ProgressLine(n) ==
    [line |-> "copied", files |-> n]

\* shutil.copy2(src, os.path.join(dst_dir, f)); count += 1
CopyName ==
    /\ wpc = "walk"
    /\ wfiles # <<>>
    /\ Classified(wfiles[1])
    /\ \E src \in {Append(wcur, wfiles[1])} :
        /\ src # DstOf(src)
        /\ wdisk' = Copy2(wdisk, src, DstOf(src))
        /\ wlog' = Append(wlog, [src |-> src, dst |-> DstOf(src)])
    /\ count' = count + 1
    /\ wprinted' = IF count' % 50 = 0 THEN Append(wprinted, ProgressLine(count'))
                   ELSE wprinted
    /\ wfiles' = Tail(wfiles)
    /\ UNCHANGED <<pending, wcur, wpc, outside_walk>>

\* shutil.copy2 of a file onto itself: SameFileError, which nothing catches.
SameFile ==
    /\ wpc = "walk"
    /\ wfiles # <<>>
    /\ Classified(wfiles[1])
    /\ \E src \in {Append(wcur, wfiles[1])} :
        /\ src = DstOf(src)
        /\ wlog' = Append(wlog, [src |-> src, dst |-> DstOf(src)])
    /\ wpc' = "raised"
    /\ wprinted' = Append(wprinted, TracebackLine)
    /\ UNCHANGED <<wdisk, pending, wcur, wfiles, count, outside_walk>>

\* The line of the total and the line of the output directory.
DoneLines(n) ==
    <<[line |-> "done", files |-> n], WhereLine>>

\* The walk is over: the two lines.
WalkDone ==
    /\ wpc = "walk"
    /\ wfiles = <<>>
    /\ pending = <<>>
    /\ wprinted' = wprinted \o DoneLines(count)
    /\ wpc' = "done"
    /\ UNCHANGED <<wdisk, pending, wcur, wfiles, count, wlog, outside_walk>>

WalkNext ==
    \/ ListDir
    \/ SkipName
    \/ CopyName
    \/ SameFile
    \/ WalkDone

\* A run of one of the two classifier utilities.
UtilInit ==
    ClassInit \/ WalkInit

UtilNext ==
    ClassNext \/ WalkNext

UtilSpec == UtilInit /\ [][UtilNext]_<<classvars, walkvars>>

----------------------------------------------------------------------------
(* Properties of the two classifier utilities. *)

\* The condition of a file name: what lies between its first underscore and
\* its extension (the last point and what follows it).
ConditionOfName(name) ==
    LET first == Min({k \in 1..Len(name) : name[k] = "_"})
        point == Max({k \in 1..Len(name) : name[k] = "."})
    IN  SubSeq(name, first + 1, point - 1)

\* root/by_condition/<condition>/<original filename>
Destination(src) ==
    <<ByCondition, ConditionOfName(src[Len(src)]), src[Len(src)]>>

\* The paths whose file is new, gone or has other bytes in e than in d.
Changed(d, e) ==
    {p \in DOMAIN d \cup DOMAIN e : p \notin DOMAIN d \/ p \notin DOMAIN e \/ d[p] # e[p]}

\* A step that copies src in the directory d, which is e after it: nothing
\* changes but the file at the destination, and after a copy that did not
\* fail that file is there with the bytes of the source.
CopiedTo(d, e, src, failed) ==
    /\ src[Len(src)][1] = "S"
    /\ Changed(d, e) \subseteq {Destination(src)}
    /\ ~failed => Destination(src) \in DOMAIN e /\ e[Destination(src)] = d[src]

\* C21: every copy of either utility puts the source file, under its own
\* name, into the directory of by_condition named by its condition, and
\* changes no other file.
C21_CopiedToConditionDirectory ==
    [][/\ Len(copylog') = Len(copylog) + 1 =>
            CopiedTo(disk, disk', copylog'[Len(copylog')].src, cpc' = "raised")
       /\ Len(wlog') = Len(wlog) + 1 =>
            CopiedTo(wdisk, wdisk', wlog'[Len(wlog')].src, wpc' = "raised")]_<<classvars, walkvars>>

\* classify_by_condition has ended after the copy of a file of a subdirectory
\* into a condition directory that was not there.
C21_Witness ==
    /\ wpc = "done"
    /\ \E k \in 1..Len(wlog) :
        /\ Len(wlog[k].src) = 2
        /\ wlog[k].dst = Destination(wlog[k].src)
        /\ wlog[k].dst \in DOMAIN wdisk
        /\ wdisk[wlog[k].dst] = wdisk[wlog[k].src]
        /\ wprinted = DoneLines(Len(wlog))

\* C22: no file under by_condition is taken as a source by either utility,
\* and no file is copied onto itself.
C22_OutputTreeNotScanned ==
    /\ \A k \in 1..Len(csvs) : ~UnderOut(csvs[k])
    /\ \A k \in 1..Len(copylog) : ~UnderOut(copylog[k].src)
    /\ \A k \in 1..Len(wlog) : ~UnderOut(wlog[k].src) /\ wlog[k].src # wlog[k].dst
    /\ wpc # "raised"

----------------------------------------------------------------------------
(* The statistics scripts trial_level_analysis, within_block_trial_analysis
   and separate_group_within_block_analysis, from the import of statsmodels
   to the cleaning step, and trial_level_analysis to its end.  The snapshot
   is the table pd.read_csv returns: str cells, NaN for null. *)

\* Number of rows of the snapshot.
MaxRows == 2

TrialLevel == "trial_level_analysis"

Scripts ==
    {TrialLevel, "within_block_trial_analysis", "separate_group_within_block_analysis"}

BlockTokens ==
    <<<<"B", "0", "1">>, <<"B", "0", "2">>, <<"B", "0", "3">>>>

TrialTokens ==
    <<<<"T", "0", "1">>, <<"T", "0", "2">>, <<"T", "0", "3">>>>

\* A row of a record whose condition has the three tokens.
FullRow(day, b, t) ==
    [subject |-> PyStr(<<"S", "1">>), Day |-> PyStr(day), Block |-> PyStr(b),
     Trial |-> PyStr(t), symb |-> PyFloat(<<5, -1>>), perm |-> PyFloat(<<15, -1>>)]

\* A row of a record whose condition has no run of the three tokens, or whose
\* file token has no underscore (null subject).
NullRow(subject) ==
    [subject |-> subject, Day |-> NaN, Block |-> NaN, Trial |-> NaN,
     symb |-> PyFloat(<<20, 0>>), perm |-> PyFloat(<<3, 0>>)]

\* The rows a snapshot of the aggregator can have: Day, Block and Trial are
\* all there or all null.
SnapshotRows ==
    {FullRow(<<"D", "0", "1">>, BlockTokens[b], TrialTokens[t]) : b \in 1..3, t \in 1..3}
    \cup {FullRow(<<"D", "0", "2">>, BlockTokens[1], TrialTokens[1])}
    \cup {NullRow(NaN), NullRow(PyStr(<<"S", "2">>))}

\* The aggregator writes no snapshot of an empty table.
Snapshots ==
    SeqsUpTo(SnapshotRows, MaxRows) \ {<<>>}

StatInit ==
    /\ script \in Scripts
    /\ statsmodels \in BOOLEAN
    /\ snapshot \in Snapshots
    /\ sdf = <<>>
    /\ spc = "start"
    /\ sout = <<>>
    /\ exitcode = None
    /\ defined = {}
    /\ outfiles = <<>>
    /\ ParserIdle
    /\ CondIdle
    /\ MainIdle
    /\ ClassIdle
    /\ WalkIdle

\* print of the except ImportError branch
ImportErrorLine ==
    [line |-> "Error: statsmodels not installed"]

\* except ImportError: print; sys.exit(1)
ImportFails ==
    /\ spc = "start"
    /\ ~statsmodels
    /\ sout' = Append(sout, ImportErrorLine)
    /\ exitcode' = Some(1)
    /\ spc' = "exited"
    /\ UNCHANGED <<script, statsmodels, snapshot, sdf, defined, outfiles, outside_stat>>

\* df = pd.read_csv(...)
ReadData ==
    /\ spc = "start"
    /\ statsmodels
    /\ sdf' = snapshot
    /\ sout' = Append(sout, [line |-> "Loaded", rows |-> Len(snapshot)])
    /\ spc' = "loaded"
    /\ UNCHANGED <<script, statsmodels, snapshot, exitcode, defined, outfiles, outside_stat>>

\* Series.str.extract of the pattern letter(\d+), for one cell: the digits
\* after the first letter that a digit follows, NaN for a null cell or no
\* match.
StrExtract(v, letter) ==
    IF v = NaN THEN NaN
    ELSE LET hits == {i \in 1..(Len(v.val) - 1) :
                        v.val[i] = letter /\ v.val[i + 1] \in Digits}
         IN  IF hits = {} THEN NaN
             ELSE PyStr(SubSeq(v.val, Min(hits) + 1,
                               SkipClass(v.val, Min(hits) + 1, Digits) - 1))

\* astype(int) of a cell that is not NaN
AsTypeInt(v) ==
    DigitsToNat(v.val)

\* The column the number of the trial is assigned to.
TrialColumn(s) ==
    IF s = TrialLevel THEN "Trial_num" ELSE "Trial_within_block"

\* The columns the numbers are extracted from in the script s, with the
\* letter of the pattern and the column assigned.
Extractions(s) ==
    {[from |-> "Block", letter |-> "B", to |-> "Block_num"],
     [from |-> "Trial", letter |-> "T", to |-> TrialColumn(s)],
     [from |-> "Day", letter |-> "D", to |-> "Day_num"]}

\* astype(int) raises for a column with a NaN; so does .str for a column
\* that is all NaN (float64).
CastRaises(d, s) ==
    \E i \in 1..Len(d) :
        \E x \in Extractions(s) : StrExtract(d[i][x.from], x.letter) = NaN

\* Mutant: two trials to a block.
TrialNumberByTwo(block_num, trial_num) ==
    (block_num - 1) * 2 + trial_num

\* (df['Block_num'] - 1) * 3 + df['Trial_num']
TrialNumber(block_num, trial_num) ==
    (block_num - 1) * 3 + trial_num

\* The row with the numeric columns of the script s; trial_level_analysis
\* adds the trial number.
WithNumbers(r, s) ==
    LET num == [x \in Extractions(s) |-> AsTypeInt(StrExtract(r[x.from], x.letter))]
        of(c) == num[CHOOSE x \in Extractions(s) : x.to = c]
        numbered == r @@ [c \in {x.to : x \in Extractions(s)} |-> of(c)]
    IN  IF s = TrialLevel
        THEN numbered @@ ("trial_number" :> TrialNumber(of("Block_num"), of("Trial_num")))
        ELSE numbered

\* What the interpreter prints for the exception that ends the script.
StatTraceback(stage) ==
    [line |-> "traceback", stage |-> stage]

\* The extraction of the numeric columns raises: the script ends there.
ExtractRaises ==
    /\ spc = "loaded"
    /\ CastRaises(sdf, script)
    /\ sout' = Append(sout, StatTraceback("extraction"))
    /\ exitcode' = Some(1)
    /\ spc' = "raised"
    /\ UNCHANGED <<script, statsmodels, snapshot, sdf, defined, outfiles, outside_stat>>

\* The numeric columns are assigned.
Extract ==
    /\ spc = "loaded"
    /\ ~CastRaises(sdf, script)
    /\ sdf' = [i \in 1..Len(sdf) |-> WithNumbers(sdf[i], script)]
    /\ spc' = "extracted"
    /\ UNCHANGED <<script, statsmodels, snapshot, sout, exitcode, defined, outfiles,
                   outside_stat>>

\* df.dropna(subset=['symb', 'perm', 'subject'])
Dropna(d) ==
    SelectSeq(d, LAMBDA r : r.symb # NaN /\ r.perm # NaN /\ r.subject # NaN)

\* The cleaning step; the model follows trial_level_analysis further.
Clean ==
    /\ spc = "extracted"
    /\ sdf' = Dropna(sdf)
    /\ sout' = Append(sout, [line |-> "After cleaning", rows |-> Len(Dropna(sdf))])
    /\ spc' = "cleaned"
    /\ UNCHANGED <<script, statsmodels, snapshot, exitcode, defined, outfiles,
                   outside_stat>>

\* The names the try block binds, in the order of its assignments.
FitNames ==
    <<"model_symb", "result_symb", "params", "pvalues", "conf_int", "trial_coef",
      "trial_pval", "trial_ci_low", "trial_ci_high">>

\* print of the except branch
FitErrorLine ==
    [line |-> "Error fitting model"]

\* The try block runs to its end.
FitOk ==
    /\ script = TrialLevel
    /\ spc = "cleaned"
    /\ defined' = {FitNames[k] : k \in 1..Len(FitNames)}
    /\ sout' = Append(sout, [line |-> "MODEL SUMMARY"])
    /\ spc' = "fitted"
    /\ UNCHANGED <<script, statsmodels, snapshot, sdf, exitcode, outfiles, outside_stat>>

\* A statement of the try block raises: the names assigned before it stay
\* bound, the except branch prints and the script goes on.
FitRaises ==
    /\ script = TrialLevel
    /\ spc = "cleaned"
    /\ \E n \in 0..(Len(FitNames) - 1) : defined' = {FitNames[k] : k \in 1..n}
    /\ sout' = sout \o <<FitErrorLine, StatTraceback("fit")>>
    /\ spc' = "fitted"
    /\ UNCHANGED <<script, statsmodels, snapshot, sdf, exitcode, outfiles, outside_stat>>

FigureFile == "trial_level_entropy_trend.png"

ResultsFile == "trial_level_analysis_results.txt"

\* plt.savefig(output_path)
SaveFigure ==
    /\ spc = "fitted"
    /\ outfiles' = (FigureFile :> "figure") @@ outfiles
    /\ sout' = Append(sout, [line |-> "Saved figure"])
    /\ spc' = "figure"
    /\ UNCHANGED <<script, statsmodels, snapshot, sdf, exitcode, defined, outside_stat>>

\* The names the statements of the with block read.
ResultsNames ==
    {"result_symb", "trial_coef", "trial_pval", "trial_ci_low", "trial_ci_high",
     "params"}

\* The results file is written and the last lines are printed.
WriteResults ==
    /\ spc = "figure"
    /\ ResultsNames \subseteq defined
    /\ outfiles' = (ResultsFile :> "complete") @@ outfiles
    /\ sout' = sout \o <<[line |-> "Saved results"], [line |-> "ANALYSIS COMPLETE"]>>
    /\ exitcode' = Some(0)
    /\ spc' = "done"
    /\ UNCHANGED <<script, statsmodels, snapshot, sdf, defined, outside_stat>>

\* A statement of the with block reads a name the try block did not bind:
\* NameError, after the first lines were written to the file.
WriteResultsRaises ==
    /\ spc = "figure"
    /\ ~(ResultsNames \subseteq defined)
    /\ outfiles' = (ResultsFile :> "partial") @@ outfiles
    /\ sout' = Append(sout, StatTraceback("results"))
    /\ exitcode' = Some(1)
    /\ spc' = "raised"
    /\ UNCHANGED <<script, statsmodels, snapshot, sdf, defined, outside_stat>>

StatNext ==
    \/ ImportFails
    \/ ReadData
    \/ ExtractRaises
    \/ Extract
    \/ Clean
    \/ FitOk
    \/ FitRaises
    \/ SaveFigure
    \/ WriteResults
    \/ WriteResultsRaises

StatSpec == StatInit /\ [][StatNext]_statvars

----------------------------------------------------------------------------
(* Properties of the statistics scripts. *)

\* The table has the numeric columns.
Extracted ==
    sdf # <<>> /\ "trial_number" \in DOMAIN sdf[1]

\* The place of a token among B01, B02, B03 or T01, T02, T03.
TokenIndex(tokens, v) ==
    CHOOSE k \in 1..3 : tokens[k] = v.val

\* C30: in trial_level_analysis the trial number of a row is
\* (Block_num - 1) * 3 + Trial_num; for B01..B03 and T01..T03 it lies in
\* 1..9, and of two rows the one with the smaller block, or the same block
\* and the smaller trial, has the smaller number (so that different pairs
\* have different numbers).
C30_TrialNumber ==
    Extracted =>
        /\ \A i \in 1..Len(sdf) :
            /\ sdf[i].trial_number = (sdf[i].Block_num - 1) * 3 + sdf[i].Trial_num
            /\ sdf[i].Block_num = TokenIndex(BlockTokens, sdf[i].Block)
            /\ sdf[i].Trial_num = TokenIndex(TrialTokens, sdf[i].Trial)
            /\ sdf[i].trial_number \in 1..9
        /\ \A i, j \in 1..Len(sdf) :
            LET bi == TokenIndex(BlockTokens, sdf[i].Block)
                bj == TokenIndex(BlockTokens, sdf[j].Block)
                ti == TokenIndex(TrialTokens, sdf[i].Trial)
                tj == TokenIndex(TrialTokens, sdf[j].Trial)
            IN  (bi < bj \/ (bi = bj /\ ti < tj)) <=>
                    sdf[i].trial_number < sdf[j].trial_number

\* The third trial of the first block and the first trial of the second
\* block have the numbers 3 and 4.
C30_Witness ==
    /\ script = TrialLevel
    /\ Extracted
    /\ Len(sdf) = 2
    /\ sdf[1].Block = PyStr(<<"B", "0", "1">>) /\ sdf[1].Trial = PyStr(<<"T", "0", "3">>)
    /\ sdf[2].Block = PyStr(<<"B", "0", "2">>) /\ sdf[2].Trial = PyStr(<<"T", "0", "1">>)
    /\ sdf[1].trial_number = 3
    /\ sdf[2].trial_number = 4

\* C24: a script ends abnormally only when statsmodels is missing, with the
\* message printed and no data read; and after a failure of the fit in
\* trial_level_analysis the script does not end in an uncaught exception: its
\* figure and its results file are written.
C24_OnlyMissingLibraryIsFatal ==
    /\ (exitcode # None /\ exitcode # Some(0)) =>
            ~statsmodels /\ sdf = <<>> /\ sout = <<ImportErrorLine>>
    /\ (\E k \in 1..Len(sout) : sout[k] = FitErrorLine) =>
            /\ spc # "raised"
            /\ spc = "done" =>
                /\ exitcode = Some(0)
                /\ outfiles = (FigureFile :> "figure") @@ (ResultsFile :> "complete")

\* C25: a snapshot with rows whose Day, Block and Trial are null does not end
\* a script in the extraction of the numeric columns, and the cleaning step
\* removes those rows.
C25_NullRowsCleaned ==
    /\ \A k \in 1..Len(sout) : sout[k] # StatTraceback("extraction")
    /\ spc \in {"cleaned", "fitted", "figure", "done"} =>
        /\ \A i \in 1..Len(sdf) : sdf[i].Day # NaN /\ sdf[i].Block # NaN /\ sdf[i].Trial # NaN
        /\ Len(sdf) = Cardinality({i \in 1..Len(snapshot) : snapshot[i].Day # NaN})

====
